---- MODULE Spec2Model ----
(***************************************************************************)
(* justsync: the per-root change tracker (SyncRoot, SyncState, StatResult) *)
(* and the coordinator (Synchronizer) as a state machine over a small      *)
(* filesystem.  A filesystem entry carries the fields the program reads:   *)
(* its type, the executable bit of st_mode, its content (or link target),  *)
(* st_mtime_ns and st_ctime_ns.  Every filesystem mutation, by a user or   *)
(* by the program, happens at a fresh tick of a logical clock.             *)
(***************************************************************************)
EXTENDS Integers, Sequences, FiniteSets, TLC

VARIABLES
    fs,        \* fs[r][p]: the live filesystem entry of path p under root r
    disk,      \* disk[r]: the persisted record file of root r (.syncstate/state)
    state,     \* state[r]: SyncRoot.state["paths"], a dict in insertion order
    changes,   \* changes[r]: SyncRoot.changes, a dict in insertion order
    modified,  \* modified[r]: SyncState.modified
    now,       \* the filesystem clock
    pc,        \* where the program is: idle, main, catchup, write, done, raised,
               \* killed, watch
    err,       \* the exception sync() or the constructor raised, or "none"
    roots,     \* Synchronizer.roots: the roots of this run, in argument order
    trust,     \* the trust_previous_sync argument of the running sync()
    seen,      \* path_seen_counter of the running sync()
    cutoff,    \* TRUE when the main loop ended at the "more than 10 times" break
    cu,        \* position of the catch-up pass: [i, paths, j]
    snap,      \* the pending changes of every root as sync() was entered
    fs0,       \* the filesystems as sync() was entered
    hist,      \* the user's mutations and the runs so far, in order
    nmut,      \* number of user mutations so far
    nsync,     \* number of runs so far
    limit,     \* the bounds of this specification: [mut, sync]
    root_path, \* root_path[r]: SyncRoot.root_path, an absolute path
    touched,   \* touched[r]: updated_paths of the event handler of root r
    tick,      \* where the loop of watch() is: [phase, h, todo, used]
    owed       \* the paths reported to a handler and not inspected since

vars == <<fs, disk, state, changes, modified, now, pc, err, roots, trust, seen,
          cutoff, cu, snap, fs0, hist, nmut, nsync, limit,
          root_path, touched, tick, owed>>

\* what only watch() changes
watch == <<touched, tick, owed>>

-----------------------------------------------------------------------------
(* Bounds of the model *)

MaxMut == 3
MaxSync == 2
MaxMutBehind == 3
MaxSyncBehind == 3
MaxDepth == 2
MaxNameLen == 2
MaxMutWriter == 1
MaxSyncWriter == 1
MaxWriterWrites == 10
MaxMutKill == 3
MaxSyncKill == 2
MaxOps == 4
MaxMutFault == 2
MaxSyncFault == 2
MaxMutLink == 3
MaxSyncLink == 2
MaxMutDeep == 2
MaxSyncDeep == 2
MaxMutHash == 3
MaxSyncHash == 2
MaxMutRace == 2
MaxSyncRace == 2
MaxIntrusions == 1
MaxMutWatch == 3
MaxSyncWatch == 1

\* synchronizer.py: a path is resolved at most this many times in one sync()
SeenLimit == 10

Roots == {1, 2, 3}

D == <<"d">>
DG == <<"d", "g">>
Paths == {D, DG}
RootDir == <<>>

\* paths under further directories, for the runs that go that deep
DGH == <<"d", "g", "h">>
DGHK == <<"d", "g", "h", "k">>
DeepPaths == {DGH, DGHK}
AllPaths == Paths \cup DeepPaths

\* what SyncRoot keeps inside each root: .syncstate, .syncstate/tmp and the
\* scratch files that _temp_file names in it (the record file
\* .syncstate/state is the variable disk).  Scratch names are random and do
\* not clash: ScratchFile stands for the one made last.
HiddenDir == <<".syncstate">>
TmpDir == <<".syncstate", "tmp">>
ScratchFile == <<".syncstate", "tmp", "scratch">>
HiddenPaths == {HiddenDir, TmpDir, ScratchFile}
FsPaths == AllPaths \cup HiddenPaths

Contents == {"x", "y"}

\* what a file holds when the write that was filling it has failed
Partial == "part"

\* what a symbolic link can point to: a file and a directory that stay where
\* they are, outside the roots
LinkTargets == {"tf", "td"}
TargetKind(t) == IF t = "td" THEN "dir" ELSE "regular"

-----------------------------------------------------------------------------
(* Paths *)

Parent(p) == SubSeq(p, 1, Len(p) - 1)

RECURSIVE StrLen(_)
\* len(path) of the relative path string: one character per name, "/" between
StrLen(p) == IF p = <<>> THEN 0
             ELSE IF Len(p) = 1 THEN 1
             ELSE StrLen(Parent(p)) + 2

\* os.walk, top-down: a directory is listed before what it contains
WalkOrder == <<HiddenDir, D, TmpDir, DG, ScratchFile, DGH, DGHK>>

\* the longest common sequence of whole names
CommonNames(ap1, ap2) ==
    LET n == CHOOSE k \in 0..Len(ap1) :
                 /\ k <= Len(ap2)
                 /\ SubSeq(ap1, 1, k) = SubSeq(ap2, 1, k)
                 /\ \A m \in (k + 1)..Len(ap1) :
                        m > Len(ap2) \/ SubSeq(ap1, 1, m) # SubSeq(ap2, 1, m)
    IN  SubSeq(ap1, 1, n)

\* str.endswith
endswith(s, suffix) ==
    /\ Len(suffix) <= Len(s)
    /\ SubSeq(s, Len(s) - Len(suffix) + 1, Len(s)) = suffix

\* path_in_dir on paths below the same root: the common path of the two,
\* name by name, ends with dir_path
path_in_dir(path, dir_path) == endswith(CommonNames(path, dir_path), dir_path)

-----------------------------------------------------------------------------
(* Filesystem entries and os.stat *)

NoEnt == [type |-> "none", x |-> FALSE, data |-> "", mtime |-> 0, ctime |-> 0]
None == [type |-> "none", x |-> FALSE, size |-> 0, mtime |-> 0, ctime |-> 0]
NoHash == <<>>

Size(data) == IF data = "" THEN 0 ELSE 1

StatOf(e) ==
    IF e.type = "none" THEN None
    ELSE [type |-> e.type, x |-> e.x,
          size |-> IF e.type = "dir" THEN 0 ELSE Size(e.data),
          mtime |-> e.mtime, ctime |-> e.ctime]

is_dir(st) == st.type = "dir"
updated_time(st) == st.ctime

\* hashlib.md5 of the bytes of a regular file or of the target of a link
get_file_hash(e) == <<e.data>>

RECURSIVE AncestorsAreDirs(_, _)
AncestorsAreDirs(fsr, p) ==
    \/ Len(p) <= 1
    \/ /\ fsr[Parent(p)].type = "dir"
       /\ AncestorsAreDirs(fsr, Parent(p))

\* some proper ancestor of p is a regular file: the kernel answers ENOTDIR
RECURSIVE AncestorIsFile(_, _)
AncestorIsFile(fsr, p) ==
    /\ Len(p) > 1
    /\ \/ fsr[Parent(p)].type = "regular"
       \/ AncestorIsFile(fsr, Parent(p))

HasChildren(fsr, p) ==
    \E q \in FsPaths : Len(q) > Len(p) /\ Parent(q) = p /\ fsr[q].type # "none"

\* creating, removing or renaming an entry marks its directory as modified
TouchParent(fsr, p, t) ==
    IF Len(p) > 1 /\ fsr[Parent(p)].type = "dir"
    THEN [fsr EXCEPT ![Parent(p)].mtime = t, ![Parent(p)].ctime = t]
    ELSE fsr

FsPut(fsr, p, e, t) == TouchParent([fsr EXCEPT ![p] = e], p, t)
FsDel(fsr, p, t) == TouchParent([fsr EXCEPT ![p] = NoEnt], p, t)

NewFile(data, x, t) ==
    [type |-> "regular", x |-> x, data |-> data, mtime |-> t, ctime |-> t]
NewDir(t) ==
    [type |-> "dir", x |-> TRUE, data |-> "", mtime |-> t, ctime |-> t]
NewLink(target, t) ==
    [type |-> "link", x |-> TRUE, data |-> target, mtime |-> t, ctime |-> t]

-----------------------------------------------------------------------------
(* SyncState: a dict path -> {stat, hash}, kept in insertion order *)

DictHas(d, p) == \E i \in 1..Len(d) : d[i].path = p
DictIdx(d, p) == CHOOSE i \in 1..Len(d) : d[i].path = p
DictDel(d, p) == SelectSeq(d, LAMBDA e : e.path # p)
DictKeys(d) == [i \in 1..Len(d) |-> d[i].path]

paths(st) == DictKeys(st)

path_get_stat(st, p) == IF DictHas(st, p) THEN st[DictIdx(st, p)].stat ELSE None
path_get_hash(st, p) == IF DictHas(st, p) THEN st[DictIdx(st, p)].hash ELSE NoHash

_path_set_attr(st, p) ==
    IF DictHas(st, p) THEN st
    ELSE Append(st, [path |-> p, stat |-> None, hash |-> NoHash])

path_set_stat(st, p, s) ==
    LET d == _path_set_attr(st, p) IN [d EXCEPT ![DictIdx(d, p)].stat = s]
path_set_hash(st, p, h) ==
    LET d == _path_set_attr(st, p) IN [d EXCEPT ![DictIdx(d, p)].hash = h]

\* SyncRoot.changes[path] = (action, stat)
ChangeSet(ch, p, a, s) ==
    IF DictHas(ch, p)
    THEN [ch EXCEPT ![DictIdx(ch, p)] = [path |-> p, action |-> a, stat |-> s]]
    ELSE Append(ch, [path |-> p, action |-> a, stat |-> s])
ChangeAction(ch, p) == IF DictHas(ch, p) THEN ch[DictIdx(ch, p)].action ELSE "none"
ChangeStat(ch, p) == IF DictHas(ch, p) THEN ch[DictIdx(ch, p)].stat ELSE None

-----------------------------------------------------------------------------
(* SyncRoot.  A world w holds what a call reads and writes:                *)
(* [fs, state, changes, modified, now, err, fuel, fault, writer]; a raised *)
(* exception is kept in w.err and every later statement is skipped.        *)

Raise(w, e) == [w EXCEPT !.err = e]

\* os.path.exists, isfile and isdir follow a symbolic link; islink does not
FollowedType(e) == IF e.type = "link" THEN TargetKind(e.data) ELSE e.type
islink(fsr, p) == IF p = RootDir THEN FALSE ELSE fsr[p].type = "link"
exists(fsr, p) == IF p = RootDir THEN TRUE ELSE fsr[p].type # "none"
isfile(fsr, p) == IF p = RootDir THEN FALSE ELSE FollowedType(fsr[p]) = "regular"
isdir(fsr, p) == IF p = RootDir THEN TRUE ELSE FollowedType(fsr[p]) = "dir"

\* should_ignore_path with the test of the hidden directory left out
should_ignore_root_only(p) == p = RootDir

should_ignore_path(p) == path_in_dir(p, HiddenDir) \/ p = RootDir

get_important_stat_info(st) == <<st.type, st.mtime, st.size, st.x>>
stats_equal(s1, s2) == get_important_stat_info(s1) = get_important_stat_info(s2)

\* SetRecord that stores the digest and leaves the stored fingerprint alone
SetRecord_hash_only(w, r, p, h, s) ==
    [w EXCEPT !.state[r] = path_set_hash(@, p, h),
              !.modified[r] = TRUE]

SetRecord(w, r, p, h, s) ==
    [w EXCEPT !.state[r] = path_set_stat(path_set_hash(@, p, h), p, s),
              !.modified[r] = TRUE]

\* inspect_path_for_changes that hashes only when the fingerprint differs,
\* whatever force_hash says
inspect_path_for_changes_unforced(w, r, p, force_hash) ==
    IF w.err # "none" \/ should_ignore_path(p) THEN w
    ELSE
    LET old_stat_info == path_get_stat(w.state[r], p)
        e == w.fs[r][p]
        stat_info == StatOf(e)
        Emit(a, h) ==
            [SetRecord(w, r, p, h, stat_info)
                EXCEPT !.changes[r] = ChangeSet(@, p, a, stat_info)]
    IN  IF stat_info # None
        THEN IF old_stat_info = None
             THEN Emit("created", IF is_dir(stat_info) THEN NoHash
                                  ELSE get_file_hash(e))
             ELSE IF is_dir(stat_info)
             THEN IF ~stats_equal(stat_info, old_stat_info)
                  THEN Emit("updated", NoHash)
                  ELSE w
             ELSE IF ~stats_equal(stat_info, old_stat_info)
             THEN IF get_file_hash(e) # path_get_hash(w.state[r], p)
                  THEN Emit("updated", get_file_hash(e))
                  ELSE w
             ELSE w
        ELSE IF old_stat_info # None
             THEN [w EXCEPT !.changes[r] = ChangeSet(@, p, "deleted", None),
                            !.state[r] = DictDel(@, p),
                            !.modified[r] = TRUE]
             ELSE w

inspect_path_for_changes(w, r, p, force_hash) ==
    IF w.err # "none" \/ should_ignore_path(p) THEN w
    ELSE
    LET old_stat_info == path_get_stat(w.state[r], p)
        e == w.fs[r][p]
        stat_info == StatOf(e)
        Emit(a, h) ==
            [SetRecord(w, r, p, h, stat_info)
                EXCEPT !.changes[r] = ChangeSet(@, p, a, stat_info)]
    IN  IF stat_info # None
        THEN IF old_stat_info = None
             THEN \* the "hash" attribute of a created directory is never set
                  Emit("created", IF is_dir(stat_info) THEN NoHash
                                  ELSE get_file_hash(e))
             ELSE IF is_dir(stat_info)
             THEN IF ~stats_equal(stat_info, old_stat_info)
                  THEN Emit("updated", NoHash)
                  ELSE w
             ELSE IF ~stats_equal(stat_info, old_stat_info) \/ force_hash
             THEN IF get_file_hash(e) # path_get_hash(w.state[r], p)
                  THEN Emit("updated", get_file_hash(e))
                  ELSE w
             ELSE w
        ELSE IF old_stat_info # None
             THEN [w EXCEPT !.changes[r] = ChangeSet(@, p, "deleted", None),
                            !.state[r] = DictDel(@, p),
                            !.modified[r] = TRUE]
             ELSE w

RECURSIVE InspectSeq(_, _, _, _, _)
InspectSeq(w, r, ps, skip, force_hash) ==
    IF ps = <<>> THEN w
    ELSE InspectSeq(IF Head(ps) \in skip THEN w
                    ELSE inspect_path_for_changes(w, r, Head(ps), force_hash),
                    r, Tail(ps), skip, force_hash)

list_paths(fsr) == SelectSeq(WalkOrder, LAMBDA p : fsr[p].type # "none")

inspect_root_for_changes(w, r, force_hash) ==
    LET recorded == paths(w.state[r])
        w1 == InspectSeq(w, r, recorded, {}, force_hash)
    IN  InspectSeq(w1, r, list_paths(w1.fs[r]),
                   {recorded[i] : i \in 1..Len(recorded)}, force_hash)

\* remove_change without "del self.changes[path]"
remove_change_keeps(w, r, p) ==
    IF w.err # "none" THEN w
    ELSE inspect_path_for_changes(w, r, p, TRUE)

remove_change(w, r, p) ==
    IF w.err # "none" THEN w
    ELSE inspect_path_for_changes(
             [w EXCEPT !.changes[r] = DictDel(@, p)], r, p, TRUE)

\* The process can be terminated between two of its filesystem operations:
\* w.fuel is the number of operations it still gets to perform (Unlimited
\* when nothing terminates it).  A terminated process performs nothing more.
Unlimited == -1
Killed(w) == w.fuel = 0
Kill(w) == Raise(w, "killed")
Spend(w) == [w EXCEPT !.fuel = IF @ = Unlimited THEN @ ELSE @ - 1]

\* os.remove / os.rmdir / os.mkdir at the next tick of the clock
OsRemove(w, r, p) ==
    IF Killed(w) THEN Kill(w)
    ELSE [Spend(w) EXCEPT !.now = @ + 1, !.fs[r] = FsDel(@, p, w.now + 1)]

OsMkdir(w, r, p) ==
    IF Killed(w) THEN Kill(w)
    ELSE [Spend(w) EXCEPT !.now = @ + 1,
                          !.fs[r] = FsPut(@, p, NewDir(w.now + 1), w.now + 1)]

\* os.rmdir: ENOTDIR on a symbolic link, ENOTEMPTY on a directory in use
OsRmdir(w, r, p) ==
    IF islink(w.fs[r], p) THEN Raise(w, "NotADirectoryError")
    ELSE IF HasChildren(w.fs[r], p) THEN Raise(w, "OSError")
    ELSE OsRemove(w, r, p)

RECURSIVE makedirs(_, _, _, _)
makedirs(w, r, p, exist_ok) ==
    IF w.err # "none" \/ p = RootDir THEN w
    ELSE
    LET w1 == IF ~exists(w.fs[r], Parent(p))
              THEN makedirs(w, r, Parent(p), exist_ok) ELSE w
    IN  IF w1.err # "none" THEN w1
        ELSE IF ~isdir(w1.fs[r], Parent(p)) THEN Raise(w1, "NotADirectoryError")
        ELSE IF exists(w1.fs[r], p)
        THEN IF exist_ok /\ isdir(w1.fs[r], p) THEN w1
             ELSE Raise(w1, "FileExistsError")
        ELSE OsMkdir(w1, r, p)

\* one turn of the loop over the directories leading to the path
EnsureDir(w, r, partial_path) ==
    IF w.err # "none" THEN w
    ELSE
    LET w1 == IF isfile(w.fs[r], partial_path)
              THEN OsRemove(w, r, partial_path) ELSE w
    IN  IF exists(w1.fs[r], partial_path) THEN w1
        ELSE LET w2 == makedirs(w1, r, partial_path, FALSE)
             IN  IF w2.err # "none" THEN w2
                 ELSE remove_change(
                          SetRecord(w2, r, partial_path, NoHash,
                                    StatOf(w2.fs[r][partial_path])),
                          r, partial_path)

\* An I/O error can strike one step of an atomic copy or write: w.fault
\* names the step ("none" when nothing fails).  The exception leaves the
\* with block of _temp_file at the yield, so the os.remove after it is not
\* reached and the scratch file stays, holding e.
Fails(w, step) == w.fault = step
Leak(w, r, e, exc) ==
    Raise([w EXCEPT !.now = @ + 1,
                    !.fs[r] = FsPut(@, ScratchFile,
                        [type |-> e.type, x |-> e.x, data |-> e.data,
                         mtime |-> w.now + 1, ctime |-> w.now + 1],
                        w.now + 1)],
          exc)

\* Another process can write a file while perform_update or perform_delete
\* of that path is under way: w.writer says where ("before" or "after" the
\* rename or removal of the path, "none" when nobody writes), in which root,
\* which path and what content.  The write replaces the content of a
\* regular file or creates the file in an existing directory.
NoWriter == [when |-> "none", r |-> 0, p |-> <<>>, c |-> ""]
Intrude(w, r, p, when) ==
    IF w.err # "none" \/ w.writer # [w.writer EXCEPT !.when = when, !.r = r, !.p = p]
    THEN w
    ELSE IF w.fs[r][p].type = "regular"
    THEN [w EXCEPT !.now = @ + 1,
                   !.fs[r][p].data = w.writer.c,
                   !.fs[r][p].mtime = w.now + 1,
                   !.fs[r][p].ctime = w.now + 1,
                   !.writer.when = "done"]
    ELSE IF w.fs[r][p].type = "none" /\ isdir(w.fs[r], Parent(p))
    THEN [w EXCEPT !.now = @ + 1,
                   !.fs[r] = FsPut(@, p, NewFile(w.writer.c, FALSE, w.now + 1),
                                   w.now + 1),
                   !.writer.when = "done"]
    ELSE w

\* shutil.move of the scratch file over the destination
MoveOver(w, r, p, srcE) ==
    [Spend(w) EXCEPT !.now = @ + 1,
                     !.fs[r] = FsPut(@, p,
                         [type |-> srcE.type, x |-> srcE.x, data |-> srcE.data,
                          mtime |-> w.now + 1, ctime |-> w.now + 1],
                         w.now + 1)]

\* shutil.copy to a scratch file, its hash, shutil.move over the destination
_atomic_copy(w, r, p, srcE) ==
    IF srcE.type = "none" THEN Raise(w, "FileNotFoundError")
    ELSE IF Fails(w, "copy") THEN Leak(w, r, [srcE EXCEPT !.data = Partial], "IOError")
    ELSE IF Fails(w, "hash") THEN Leak(w, r, srcE, "IOError")
    ELSE IF ~isdir(w.fs[r], Parent(p)) THEN Leak(w, r, srcE, "FileNotFoundError")
    ELSE IF Fails(w, "move") THEN Leak(w, r, srcE, "IOError")
    ELSE IF Killed(w) THEN Leak(w, r, srcE, "killed")
    ELSE Intrude(MoveOver(Intrude(w, r, p, "before"), r, p, srcE), r, p, "after")

\* the loop over dir_path = os.path.split(path_to_dir): its two turns
MakeParents(w, r, p) ==
    EnsureDir(EnsureDir(w, r,
                        IF Len(Parent(p)) <= 1 THEN RootDir ELSE Parent(Parent(p))),
              r, Parent(p))

\* self.state.path_set_hash(path, h), unless an exception is on its way
SetHash(w, r, p, h) ==
    IF w.err # "none" THEN w
    ELSE [w EXCEPT !.state[r] = path_set_hash(@, p, h), !.modified[r] = TRUE]

\* self.state.path_set_stat(path, self.stat(path))
SetStat(w, r, p) ==
    IF w.err # "none" THEN w
    ELSE [w EXCEPT !.state[r] = path_set_stat(@, p, StatOf(w.fs[r][p])),
                   !.modified[r] = TRUE]

\* if os.path.isfile(abspath): os.remove(abspath)
RemoveFile(w, r, p) == IF isfile(w.fs[r], p) THEN OsRemove(w, r, p) ELSE w

\* if os.path.isdir(abspath): os.rmdir(abspath)
RemoveDir(w, r, p) == IF isdir(w.fs[r], p) THEN OsRmdir(w, r, p) ELSE w

CopyTo(w, r, p, srcE) ==
    IF w.err # "none" THEN w ELSE _atomic_copy(w, r, p, srcE)

\* Materialize without self.state.path_set_hash(path, None) for a directory
Materialize_keeps_hash(w, r, p, srcE) ==
    IF w.err # "none" THEN w
    ELSE IF srcE.type = "dir"
    THEN makedirs(RemoveFile(w, r, p), r, p, TRUE)
    ELSE SetHash(CopyTo(RemoveDir(w, r, p), r, p, srcE),
                 r, p, get_file_hash(srcE))

\* the "Directories" and the "Files / Symlinks" branches
Materialize(w, r, p, srcE) ==
    IF w.err # "none" THEN w
    ELSE IF srcE.type = "dir"
    THEN SetHash(makedirs(RemoveFile(w, r, p), r, p, TRUE), r, p, NoHash)
    ELSE SetHash(CopyTo(RemoveDir(w, r, p), r, p, srcE),
                 r, p, get_file_hash(srcE))

AfterParents(w, r, p, src) ==
    remove_change(SetStat(Materialize(w, r, p, w.fs[src][p]), r, p), r, p)

perform_update(w, r, p, src) ==
    IF w.err # "none" THEN w
    ELSE AfterParents(MakeParents(w, r, p), r, p, src)

\* self.state.path_delete(path)
path_delete(w, r, p) ==
    IF DictHas(w.state[r], p)
    THEN [w EXCEPT !.state[r] = DictDel(@, p), !.modified[r] = TRUE]
    ELSE Raise([w EXCEPT !.modified[r] = TRUE], "KeyError")

\* os.rmdir or os.remove of the path, a missing file being tolerated
RemoveEntry(w, r, p) ==
    IF w.err # "none" THEN w
    ELSE IF isdir(w.fs[r], p) THEN OsRmdir(w, r, p)
    ELSE IF exists(w.fs[r], p) THEN OsRemove(w, r, p)
    ELSE IF AncestorIsFile(w.fs[r], p) THEN Raise(w, "NotADirectoryError")
    ELSE w   \* FileNotFoundError: pass

perform_delete(w, r, p) ==
    IF w.err # "none" THEN w
    ELSE remove_change(
             Intrude(RemoveEntry(Intrude(path_delete(w, r, p), r, p, "before"),
                                 r, p),
                     r, p, "after"),
             r, p)

-----------------------------------------------------------------------------
(* Synchronizer *)

\* index of the first element of keys that no other element sorts before:
\* what list.sort (stable) puts at position 0
KeyLess(k1, k2) ==
    \E i \in 1..Len(k1) :
        /\ k1[i] < k2[i]
        /\ \A j \in 1..(i - 1) : k1[j] = k2[j]

SortFirst(keys) ==
    CHOOSE i \in 1..Len(keys) :
        /\ \A j \in 1..Len(keys) : ~KeyLess(keys[j], keys[i])
        /\ \A j \in 1..(i - 1) : KeyLess(keys[i], keys[j])

RECURSIVE AllChanges(_, _)
AllChanges(w, order) ==
    IF order = <<>> THEN <<>>
    ELSE w.changes[Head(order)] \o AllChanges(w, Tail(order))

action_priority(a) == CASE a = "deleted" -> 0 [] a = "updated" -> 1 [] a = "created" -> 2

\* sort_key without the minus sign: the shortest path first
change_sort_key_shortest_first(c) == <<action_priority(c.action), StrLen(c.path)>>

change_sort_key(c) == <<action_priority(c.action), 0 - StrLen(c.path)>>

NoPath == <<"-">>

_get_changed_path(w, order) ==
    LET cs == AllChanges(w, order)
    IN  IF cs = <<>> THEN NoPath
        ELSE cs[SortFirst([i \in 1..Len(cs) |-> change_sort_key(cs[i])])].path

\* root_stats that reads only the pending observations, never the stored
\* records
RECURSIVE root_stats_pending_only(_, _, _)
root_stats_pending_only(w, order, p) ==
    IF order = <<>> THEN <<>>
    ELSE LET r == Head(order)
             pending == ChangeStat(w.changes[r], p)
         IN  (IF pending # None
              THEN <<[root |-> r, was_changed |-> TRUE, stat |-> pending]>>
              ELSE <<>>) \o root_stats_pending_only(w, Tail(order), p)

\* [(root, was_changed, stat), ...] of _get_root_with_golden_copy
RECURSIVE root_stats(_, _, _)
root_stats(w, order, p) ==
    IF order = <<>> THEN <<>>
    ELSE LET r == Head(order)
             pending == ChangeStat(w.changes[r], p)
             was_changed == pending # None
             st == IF was_changed THEN pending ELSE path_get_stat(w.state[r], p)
         IN  (IF st # None
              THEN <<[root |-> r, was_changed |-> was_changed, stat |-> st]>>
              ELSE <<>>) \o root_stats(w, Tail(order), p)

\* golden_sort_key without "directories win over files"
golden_sort_key_by_time(rs) ==
    <<IF rs.was_changed THEN 0 ELSE 1,
      0 - updated_time(rs.stat)>>

\* golden_sort_key with the directory test inverted
golden_sort_key_files_first(rs) ==
    <<IF rs.was_changed THEN 0 ELSE 1,
      IF is_dir(rs.stat) THEN 1 ELSE 0,
      0 - updated_time(rs.stat)>>

golden_sort_key(rs) ==
    <<IF rs.was_changed THEN 0 ELSE 1,
      IF is_dir(rs.stat) THEN 0 ELSE 1,
      0 - updated_time(rs.stat)>>

NoRoot == 0

_get_root_with_golden_copy(w, order, p) ==
    LET rs == root_stats(w, order, p)
    IN  IF rs = <<>> THEN NoRoot
        ELSE rs[SortFirst([i \in 1..Len(rs) |-> golden_sort_key(rs[i])])].root

\* _update_roots without the comparison of hash and mode: every root but the
\* source is updated
RECURSIVE _update_roots_always(_, _, _, _)
_update_roots_always(w, order, source_root, p) ==
    IF order = <<>> \/ w.err # "none" THEN w
    ELSE
    LET r == Head(order)
        w1 == IF r # source_root
              THEN perform_update(w, r, p, source_root)
              ELSE remove_change(w, r, p)
    IN  _update_roots_always(w1, Tail(order), source_root, p)

RECURSIVE _update_roots(_, _, _, _)
_update_roots(w, order, source_root, p) ==
    IF order = <<>> \/ w.err # "none" THEN w
    ELSE
    LET r == Head(order)
        old_hash == path_get_hash(w.state[r], p)
        old_stat == path_get_stat(w.state[r], p)
        new_hash == path_get_hash(w.state[source_root], p)
        new_stat == path_get_stat(w.state[source_root], p)
        w1 == IF r # source_root
              THEN IF /\ old_hash = new_hash
                      /\ old_stat # None /\ new_stat # None
                      /\ <<old_stat.type, old_stat.x>> = <<new_stat.type, new_stat.x>>
                   THEN remove_change(w, r, p)
                   ELSE perform_update(w, r, p, source_root)
              ELSE remove_change(w, r, p)
    IN  _update_roots(w1, Tail(order), source_root, p)

RECURSIVE DeleteForEverybody(_, _, _)
DeleteForEverybody(w, order, p) ==
    IF order = <<>> \/ w.err # "none" THEN w
    ELSE LET r == Head(order)
             w1 == IF ChangeAction(w.changes[r], p) # "deleted"
                   THEN perform_delete(w, r, p)
                   ELSE remove_change(w, r, p)
         IN  DeleteForEverybody(w1, Tail(order), p)

RangeOf(seq) == {seq[i] : i \in 1..Len(seq)}

was_deleted(w, order, p) ==
    \E r \in RangeOf(order) : ChangeAction(w.changes[r], p) = "deleted"

\* some root saw the path updated or created or, failing any change, the
\* stored types or hashes of the roots do not all agree
was_updated_or_created(w, order, p) ==
    LET rs == RangeOf(order)
        types == {path_get_stat(w.state[r], p).type : r \in rs}
        hashes == {path_get_hash(w.state[r], p) : r \in rs}
    IN  IF \E r \in rs : ChangeAction(w.changes[r], p) \in {"updated", "created"}
        THEN TRUE
        ELSE IF was_deleted(w, order, p) THEN FALSE
        ELSE Cardinality(types) > 1 \/ Cardinality(hashes) > 1

\* _sync_path with the branches in the other order: an update or creation is
\* propagated before a deletion is looked at
_sync_path_update_first(w, order, p) ==
    IF \E r \in RangeOf(order) :
          ChangeAction(w.changes[r], p) \in {"updated", "created"}
    THEN LET source_root == _get_root_with_golden_copy(w, order, p)
         IN  IF source_root = NoRoot THEN Raise(w, "IndexError")
             ELSE _update_roots(w, order, source_root, p)
    ELSE IF was_deleted(w, order, p) THEN DeleteForEverybody(w, order, p)
    ELSE IF was_updated_or_created(w, order, p)
    THEN LET source_root == _get_root_with_golden_copy(w, order, p)
         IN  IF source_root = NoRoot THEN Raise(w, "IndexError")
             ELSE _update_roots(w, order, source_root, p)
    ELSE w

_sync_path(w, order, p) ==
    IF was_deleted(w, order, p) THEN DeleteForEverybody(w, order, p)
    ELSE IF was_updated_or_created(w, order, p)
    THEN LET source_root == _get_root_with_golden_copy(w, order, p)
         IN  IF source_root = NoRoot THEN Raise(w, "IndexError")
             ELSE _update_roots(w, order, source_root, p)
    ELSE w

\* An absolute path is a sequence of names and a name a sequence of characters;
\* PathStr is the string the program holds: "/" and the names joined by "/".
RECURSIVE PathStr(_)
PathStr(ap) ==
    IF ap = <<>> THEN <<"/">>
    ELSE IF Len(ap) = 1 THEN <<"/">> \o ap[1]
    ELSE PathStr(SubSeq(ap, 1, Len(ap) - 1)) \o <<"/">> \o ap[Len(ap)]

\* the longest common prefix of two strings, character by character
RECURSIVE CommonChars(_, _)
CommonChars(s1, s2) ==
    IF s1 = <<>> \/ s2 = <<>> THEN <<>>
    ELSE IF Head(s1) # Head(s2) THEN <<>>
    ELSE <<Head(s1)>> \o CommonChars(Tail(s1), Tail(s2))

\* os.path.commonprefix in the place of os.path.commonpath
commonprefix(ap1, ap2) == CommonChars(PathStr(ap1), PathStr(ap2))

\* os.path.commonpath of the strings of two absolute paths
commonpath(ap1, ap2) == PathStr(CommonNames(ap1, ap2))

\* the test of Synchronizer.__init__ on a pair of distinct root objects
Overlap(ap1, ap2) ==
    LET common == commonpath(ap1, ap2)
    IN  endswith(common, PathStr(ap1)) \/ endswith(common, PathStr(ap2))

CtorRaises(order, rp) ==
    \E i, j \in 1..Len(order) :
        order[i] # order[j] /\ Overlap(rp[order[i]], rp[order[j]])

-----------------------------------------------------------------------------
(* The program as a state machine *)

World ==
    [fs |-> fs, state |-> state, changes |-> changes, modified |-> modified,
     now |-> now, err |-> "none", fuel |-> Unlimited, fault |-> "none",
     writer |-> NoWriter]

Commit(w) ==
    /\ fs' = w.fs
    /\ state' = w.state
    /\ changes' = w.changes
    /\ modified' = w.modified
    /\ now' = w.now
    /\ err' = w.err

Quiescent == pc \in {"idle", "done", "raised"}

\* sync() is not running: it has not begun, it has ended, or its process
\* has been terminated
NotRunning == Quiescent \/ pc = "killed"

NoCu == [i |-> 0, paths |-> <<>>, j |-> 0]
NoSeen == [p \in AllPaths |-> 0]

\* an entry of hist; "after" is where the program was when it happened
Event(op, r, p, c, order) ==
    [op |-> op, r |-> r, p |-> p, c |-> c, order |-> order, after |-> pc]

RECURSIVE InspectRoots(_, _, _)
InspectRoots(w, order, force_hash) ==
    IF order = <<>> THEN w
    ELSE InspectRoots(inspect_root_for_changes(w, Head(order), force_hash),
                      Tail(order), force_hash)

\* SyncRoot(d) for every root, Synchronizer(*roots, force_hash), then sync()
\* is entered with trust_previous_sync = tr.
Construct(order, force_hash, tr) ==
    /\ NotRunning
    /\ nsync < limit.sync
    /\ nsync' = nsync + 1
    /\ roots' = order
    /\ trust' = tr
    /\ seen' = NoSeen
    /\ cutoff' = FALSE
    /\ cu' = NoCu
    /\ fs0' = fs
    /\ hist' = Append(hist, Event("sync", 0, RootDir,
                                   IF force_hash THEN "force_hash" ELSE "",
                                   order))
    /\ UNCHANGED <<disk, nmut, limit, root_path, watch>>
    /\ IF CtorRaises(order, root_path)
       THEN /\ pc' = "raised"
            /\ err' = "ValueError"
            /\ snap' = [r \in Roots |-> <<>>]
            /\ UNCHANGED <<fs, state, changes, modified, now>>
       ELSE LET loaded == [World EXCEPT
                             !.state = [r \in Roots |-> disk[r]],
                             !.changes = [r \in Roots |-> <<>>],
                             !.modified = [r \in Roots |-> FALSE]]
                w == InspectRoots(loaded, order, force_hash)
            IN  /\ Commit(w)
                /\ snap' = w.changes
                /\ pc' = "main"

\* CuNext without "if path in path_seen_counter: continue"
RECURSIVE CuNext_no_skip(_, _, _, _)
CuNext_no_skip(c, st, order, sn) ==
    IF c.j <= Len(c.paths) THEN c
    ELSE IF c.i >= Len(order) THEN [i |-> 0, paths |-> <<>>, j |-> 0]
    ELSE CuNext_no_skip([i |-> c.i + 1, paths |-> paths(st[order[c.i + 1]]),
                         j |-> 1],
                        st, order, sn)

\* The catch-up pass is at turn j of "for path in root.state.paths()" of
\* root number i; paths is the list that call returned.  CuNext moves on to
\* the next turn that does not "continue", entering the loop of the following
\* roots as needed; i = 0 when the loops are over.
RECURSIVE CuNext(_, _, _, _)
CuNext(c, st, order, sn) ==
    IF c.j <= Len(c.paths)
    THEN IF sn[c.paths[c.j]] > 0
         THEN CuNext([c EXCEPT !.j = @ + 1], st, order, sn)
         ELSE c
    ELSE IF c.i >= Len(order) THEN [i |-> 0, paths |-> <<>>, j |-> 0]
    ELSE CuNext([i |-> c.i + 1, paths |-> paths(st[order[c.i + 1]]), j |-> 1],
                st, order, sn)

\* the end of the main loop: the catch-up pass, or straight to write_state
AfterMain(w, sn) ==
    IF trust
    THEN /\ pc' = "write"
         /\ cu' = NoCu
    ELSE LET c == CuNext([i |-> 0, paths |-> <<>>, j |-> 1], w.state, roots, sn)
         IN  /\ cu' = c
             /\ pc' = IF c.i = 0 THEN "write" ELSE "catchup"

\* one turn of the while loop of sync()
MainStep ==
    /\ pc = "main"
    /\ UNCHANGED <<disk, roots, trust, snap, fs0, hist, nmut, nsync, limit,
                   root_path, watch>>
    /\ LET path == _get_changed_path(World, roots)
       IN  IF path = NoPath
           THEN /\ AfterMain(World, seen)
                /\ UNCHANGED <<fs, state, changes, modified, now, err, seen, cutoff>>
           ELSE /\ seen' = [seen EXCEPT ![path] = @ + 1]
                /\ IF seen[path] + 1 > SeenLimit
                   THEN /\ cutoff' = TRUE
                        /\ AfterMain(World, [seen EXCEPT ![path] = @ + 1])
                        /\ UNCHANGED <<fs, state, changes, modified, now, err>>
                   ELSE LET w == _sync_path(World, roots, path)
                        IN  /\ Commit(w)
                            /\ cutoff' = FALSE
                            /\ cu' = cu
                            /\ pc' = IF w.err = "none" THEN "main" ELSE "raised"

\* one turn of the loops of the catch-up pass that reaches _sync_path
CatchUpStep ==
    /\ pc = "catchup"
    /\ UNCHANGED <<disk, roots, trust, snap, fs0, hist, nmut, nsync, limit,
                   root_path, cutoff, watch>>
    /\ LET path == cu.paths[cu.j]
           w == _sync_path(World, roots, path)
           sn == [seen EXCEPT ![path] = @ + 1]
           c == CuNext([cu EXCEPT !.j = @ + 1], w.state, roots, sn)
       IN  /\ seen' = sn
           /\ Commit(w)
           /\ IF w.err # "none"
              THEN /\ pc' = "raised"
                   /\ cu' = cu
              ELSE /\ cu' = c
                   /\ pc' = IF c.i = 0 THEN "write" ELSE "catchup"

\* write_state of every root, in order; the assertion of a root that still
\* holds a change ends the loop
\* write_state without the dump: the flag is cleared, the file is left alone
RECURSIVE WriteStates_flag_only(_, _, _)
WriteStates_flag_only(acc, order, w) ==
    IF order = <<>> \/ acc.err # "none" THEN acc
    ELSE LET r == Head(order)
             a1 == IF w.changes[r] # <<>>
                   THEN [acc EXCEPT !.err = "AssertionError"]
                   ELSE [acc EXCEPT !.modified[r] = FALSE]
         IN  WriteStates_flag_only(a1, Tail(order), w)

RECURSIVE WriteStates(_, _, _)
WriteStates(acc, order, w) ==
    IF order = <<>> \/ acc.err # "none" THEN acc
    ELSE LET r == Head(order)
             a1 == IF w.changes[r] # <<>>
                   THEN [acc EXCEPT !.err = "AssertionError"]
                   ELSE IF acc.modified[r]
                   THEN [acc EXCEPT !.disk[r] = w.state[r], !.modified[r] = FALSE]
                   ELSE acc
         IN  WriteStates(a1, Tail(order), w)

WriteStep ==
    /\ pc = "write"
    /\ LET a == WriteStates([disk |-> disk, modified |-> modified, err |-> "none"],
                            roots, World)
       IN  /\ disk' = a.disk
           /\ modified' = a.modified
           /\ err' = a.err
           /\ pc' = IF a.err = "none" THEN "done" ELSE "raised"
    /\ UNCHANGED <<fs, state, changes, now, roots, trust, seen, cutoff, cu, snap,
                   fs0, hist, nmut, nsync, limit, root_path, watch>>

-----------------------------------------------------------------------------
(* sync() as a whole, from a world in which the roots have been inspected *)

\* the while loop of sync(): the world and path_seen_counter it ends with
RECURSIVE MainLoop(_, _, _)
RECURSIVE MainTurn(_, _, _, _)
MainLoop(w, order, sn) ==
    IF w.err # "none" THEN [w |-> w, seen |-> sn]
    ELSE MainTurn(w, order, sn, _get_changed_path(w, order))

MainTurn(w, order, sn, path) ==
    IF path = NoPath THEN [w |-> w, seen |-> sn]
    ELSE IF sn[path] + 1 > SeenLimit
    THEN [w |-> w, seen |-> [sn EXCEPT ![path] = @ + 1]]
    ELSE MainLoop(_sync_path(w, order, path), order,
                  [sn EXCEPT ![path] = @ + 1])

\* the loops of the catch-up pass, from turn c on
RECURSIVE CatchUpLoop(_, _, _, _)
RECURSIVE CatchUpTurn(_, _, _, _)
CatchUpLoop(w, order, sn, c) ==
    IF w.err # "none" \/ c.i = 0 THEN w
    ELSE CatchUpTurn(_sync_path(w, order, c.paths[c.j]), order,
                     [sn EXCEPT ![c.paths[c.j]] = @ + 1], c)

CatchUpTurn(w, order, sn, c) ==
    CatchUpLoop(w, order, sn, CuNext([c EXCEPT !.j = @ + 1], w.state, order, sn))

CatchUp(m, order, trust_previous_sync) ==
    IF trust_previous_sync THEN m.w
    ELSE CatchUpLoop(m.w, order, m.seen,
                     CuNext([i |-> 0, paths |-> <<>>, j |-> 1],
                            m.w.state, order, m.seen))

\* for root in self.roots: root.write_state()
WriteAll(w, order) ==
    IF w.err # "none" THEN w
    ELSE IF \E i \in 1..Len(order) : w.changes[order[i]] # <<>>
    THEN Raise(w, "AssertionError")
    ELSE [w EXCEPT !.modified = [r \in Roots |-> FALSE]]

sync(w, order, trust_previous_sync) ==
    WriteAll(CatchUp(MainLoop(w, order, NoSeen), order, trust_previous_sync),
             order)

\* sync_dirs of test.py: fresh SyncRoots over the directories fsv with the
\* record files diskv, a Synchronizer over them in that order, and sync();
\* the world it ends in
sync_dirs(fsv, diskv, t, order) ==
    sync(InspectRoots([fs |-> fsv,
                       state |-> diskv,
                       changes |-> [r \in Roots |-> <<>>],
                       modified |-> [r \in Roots |-> FALSE],
                       now |-> t, err |-> "none", fuel |-> Unlimited,
                       fault |-> "none", writer |-> NoWriter],
                      order, FALSE),
         order, FALSE)

-----------------------------------------------------------------------------
(* The process is terminated while sync() runs *)

\* The process is terminated within a turn of the while loop or of the
\* catch-up pass, when it is about to perform a filesystem operation after
\* k others of that turn.  What is in memory is lost; the filesystems and
\* the record files stay as they are.
Terminate(w) ==
    /\ w.err = "killed"
    /\ fs' = w.fs
    /\ now' = w.now
    /\ pc' = "killed"
    /\ err' = "killed"
    /\ hist' = Append(hist, Event("kill", 0, RootDir, "", roots))
    /\ UNCHANGED <<disk, state, changes, modified, roots, trust, seen, cutoff,
                   cu, snap, fs0, nmut, nsync, limit, root_path, watch>>

\* the path the next step of the run resolves with _sync_path, or NoPath
Resolving ==
    IF pc = "main"
    THEN LET path == _get_changed_path(World, roots)
         IN  IF path # NoPath /\ seen[path] + 1 > SeenLimit THEN NoPath ELSE path
    ELSE IF pc = "catchup" THEN cu.paths[cu.j]
    ELSE NoPath

KillInTurn(k) ==
    /\ Resolving # NoPath
    /\ Terminate(_sync_path([World EXCEPT !.fuel = k], roots, Resolving))

\* The process is terminated in "for root in self.roots: root.write_state()"
\* when n of the roots have had their turn.
KillInWrite(n) ==
    /\ pc = "write"
    /\ n < Len(roots)
    /\ LET a == WriteStates([disk |-> disk, modified |-> modified, err |-> "none"],
                            SubSeq(roots, 1, n), World)
       IN  /\ a.err = "none"
           /\ disk' = a.disk
    /\ pc' = "killed"
    /\ err' = "killed"
    /\ hist' = Append(hist, Event("kill", 0, RootDir, "", roots))
    /\ UNCHANGED <<fs, state, changes, modified, now, roots, trust, seen, cutoff,
                   cu, snap, fs0, nmut, nsync, limit, root_path, watch>>

-----------------------------------------------------------------------------
(* An I/O error while sync() runs *)

CopyFaults == {"copy", "hash", "move"}
WriteFaults == {"write", "move"}

\* the first _atomic_copy of a turn of the while loop or of the catch-up
\* pass fails at step f; the exception ends sync()
FaultInTurn(f) ==
    /\ Resolving # NoPath
    /\ LET w == _sync_path([World EXCEPT !.fault = f], roots, Resolving)
       IN  /\ w.err = "IOError"
           /\ Commit(w)
    /\ pc' = "raised"
    /\ hist' = Append(hist, Event("fault", 0, Resolving, f, roots))
    /\ UNCHANGED <<disk, roots, trust, seen, cutoff, cu, snap, fs0, nmut, nsync,
                   limit, root_path, watch>>

\* _atomic_write of the record file of root number n + 1 of the run fails
\* at step f, the roots before it having written theirs
FaultInWrite(n, f) ==
    /\ pc = "write"
    /\ n < Len(roots)
    /\ LET a == WriteStates([disk |-> disk, modified |-> modified, err |-> "none"],
                            SubSeq(roots, 1, n), World)
           r == roots[n + 1]
           w == Leak(World, r,
                     NewFile(IF f = "write" THEN Partial ELSE "state", FALSE, 0),
                     "IOError")
       IN  /\ a.err = "none"
           /\ changes[r] = <<>>
           /\ modified[r]
           /\ disk' = a.disk
           /\ modified' = a.modified
           /\ fs' = w.fs
           /\ now' = w.now
    /\ pc' = "raised"
    /\ err' = "IOError"
    /\ hist' = Append(hist, Event("fault", roots[n + 1], RootDir, f, roots))
    /\ UNCHANGED <<state, changes, roots, trust, seen, cutoff, cu, snap, fs0,
                   nmut, nsync, limit, root_path, watch>>

-----------------------------------------------------------------------------
(* The user, between two runs of the program *)

Mutate(r, newfsr, t, ev) ==
    /\ Quiescent
    /\ nmut < limit.mut
    /\ nsync < limit.sync   \* a run follows
    /\ nmut' = nmut + 1
    /\ now' = t
    /\ fs' = [fs EXCEPT ![r] = newfsr]
    /\ hist' = Append(hist, ev)
    /\ pc' = "idle"
    /\ err' = "none"
    /\ UNCHANGED <<disk, state, changes, modified, roots, trust, seen, cutoff, cu,
                   snap, fs0, nsync, limit, root_path, watch>>

\* write_file of test.py: os.makedirs(dirname, exist_ok=True), then
\* open(path, "w").write(c), which creates the file or replaces its content
UserWrite(r, p, c) ==
    LET w == makedirs(World, r, Parent(p), TRUE)
        t == w.now + 1
    IN  /\ w.err = "none"
        /\ fs[r][p].type \in {"none", "regular"}
        /\ Mutate(r,
                  IF fs[r][p].type = "none"
                  THEN FsPut(w.fs[r], p, NewFile(c, FALSE, t), t)
                  ELSE [fs[r] EXCEPT ![p].data = c, ![p].mtime = t, ![p].ctime = t],
                  t, Event("write", r, p, c, <<>>))

\* delete_file of test.py: os.remove
UserDelete(r, p) ==
    /\ fs[r][p].type = "regular"
    /\ Mutate(r, FsDel(fs[r], p, now + 1), now + 1,
              Event("delete", r, p, "", <<>>))

\* write_dir of test.py: os.makedirs
UserMkdir(r, p) ==
    LET w == makedirs(World, r, p, FALSE)
    IN  /\ w.err = "none"
        /\ Mutate(r, w.fs[r], w.now, Event("mkdir", r, p, "", <<>>))

\* delete_dir of test.py: os.rmdir
UserRmdir(r, p) ==
    /\ fs[r][p].type = "dir"
    /\ ~HasChildren(fs[r], p)
    /\ Mutate(r, FsDel(fs[r], p, now + 1), now + 1,
              Event("rmdir", r, p, "", <<>>))

\* test_symlink and test_file_change_to_symlink of test.py: os.symlink,
\* after os.remove of the file or link that is in the way
UserSymlink(r, p, target) ==
    /\ fs[r][p].type \in {"none", "regular", "link"}
    /\ fs[r][p].type = "link" => fs[r][p].data # target
    /\ isdir(fs[r], Parent(p))
    /\ LET t == IF fs[r][p].type = "none" THEN now + 1 ELSE now + 2
       IN  Mutate(r, FsPut(fs[r], p, NewLink(target, t), t), t,
                  Event("symlink", r, p, target, <<>>))

\* test_delete_symlink_to_dir of test.py: os.remove of a link
UserUnlink(r, p) ==
    /\ fs[r][p].type = "link"
    /\ Mutate(r, FsDel(fs[r], p, now + 1), now + 1,
              Event("unlink", r, p, "", <<>>))

\* test_file_change of test.py: a file is written again so soon after its
\* last modification that its timestamps stay the same, with a content of
\* the same size
UserWriteSameTime(r, p, c) ==
    /\ fs[r][p].type = "regular"
    /\ fs[r][p].data # c
    /\ Size(fs[r][p].data) = Size(c)
    /\ Mutate(r, [fs[r] EXCEPT ![p].data = c], now,
              Event("rewrite", r, p, c, <<>>))

\* test_file_executable_bit of test.py: os.chmod, here of the bit either way
UserChmod(r, p) ==
    /\ fs[r][p].type = "regular"
    /\ Mutate(r, [fs[r] EXCEPT ![p].x = ~@, ![p].ctime = now + 1], now + 1,
              Event("chmod", r, p, "", <<>>))

-----------------------------------------------------------------------------
(* A writer outside the program, at work while sync() runs *)

\* how often the writer has written path p since the run began
RECURSIVE WriterWrites(_, _)
WriterWrites(h, p) ==
    IF h = <<>> \/ h[Len(h)].op = "sync" THEN 0
    ELSE (IF h[Len(h)].op = "wwrite" /\ h[Len(h)].p = p THEN 1 ELSE 0)
         + WriterWrites(SubSeq(h, 1, Len(h) - 1), p)

\* Between two turns of the while loop of sync() another process replaces
\* the content of a file.  The writer is kept to one write of a path per
\* selection of that path, MaxWriterWrites writes of it in all.
WriterWrite(r, p, c) ==
    /\ pc = "main"
    /\ fs[r][p].type = "regular"
    /\ c # fs[r][p].data
    /\ WriterWrites(hist, p) = seen[p]
    /\ WriterWrites(hist, p) < MaxWriterWrites
    /\ now' = now + 1
    /\ fs' = [fs EXCEPT ![r][p].data = c, ![r][p].mtime = now + 1,
                        ![r][p].ctime = now + 1]
    /\ hist' = Append(hist, Event("wwrite", r, p, c, <<>>))
    /\ UNCHANGED <<disk, state, changes, modified, pc, err, roots, trust, seen,
                   cutoff, cu, snap, fs0, nmut, nsync, limit, root_path, watch>>

\* what the writer puts into a file: a content no user writes
WriterContents == {"z"}
WriterMoments == {"before", "after"}

IsIntrusion(e) == e.op \in {"wbefore", "wafter"}
Intrusions(h) == Cardinality({i \in 1..Len(h) : IsIntrusion(h[i])})

\* A turn of the while loop or of the catch-up pass during which another
\* process writes the path being resolved in root r, while perform_update or
\* perform_delete of that path is under way in that root.
WriterInTurn(when, r, c) ==
    /\ Resolving # NoPath
    /\ Intrusions(hist) < MaxIntrusions
    /\ LET path == Resolving
           w == _sync_path([World EXCEPT !.writer = [when |-> when, r |-> r,
                                                    p |-> path, c |-> c]],
                           roots, path)
           sn == [seen EXCEPT ![path] = @ + 1]
       IN  /\ w.writer.when = "done"
           /\ Commit(w)
           /\ seen' = sn
           /\ hist' = Append(hist, Event("w" \o when, r, path, c, <<>>))
           /\ IF w.err # "none"
              THEN pc' = "raised" /\ cu' = cu
              ELSE IF pc = "main"
              THEN pc' = "main" /\ cu' = cu
              ELSE LET nxt == CuNext([cu EXCEPT !.j = @ + 1], w.state, roots, sn)
                   IN  /\ cu' = nxt
                       /\ pc' = IF nxt.i = 0 THEN "write" ELSE "catchup"
    /\ UNCHANGED <<disk, roots, trust, cutoff, snap, fs0, nmut, nsync, limit,
                   root_path, watch>>

-----------------------------------------------------------------------------
(* Synchronizer.watch: the main thread sleeps, inspects the paths the       *)
(* handlers have collected and calls sync(trust_previous_sync=True), while  *)
(* the observer thread calls on_any_event for every change it is told of.  *)
(* An event is delivered as the change is made.                            *)

Sleeping == [phase |-> "sleep", h |-> 0, todo |-> {}, used |-> 0]

\* the paths outside .syncstate whose entry differs: the events of a change
Changed(fsr, newfsr) == {q \in AllPaths : fsr[q] # newfsr[q]}

\* on_any_event / add_path for every event, in the handler of each root
Reported(newfs) ==
    /\ touched' = [r \in Roots |-> touched[r] \cup Changed(fs[r], newfs[r])]
    /\ owed' = owed \cup {rq \in Roots \X AllPaths :
                              rq[2] \in Changed(fs[rq[1]], newfs[rq[1]])}

\* sync() from the world m its loops ended in, write_state included, within
\* watch()
RunSync(m, order) ==
    LET a == WriteStates([disk |-> disk, modified |-> m.modified, err |-> m.err],
                         order, m)
    IN  /\ fs' = m.fs
        /\ state' = m.state
        /\ changes' = m.changes
        /\ now' = m.now
        /\ disk' = a.disk
        /\ modified' = a.modified
        /\ err' = a.err
        /\ pc' = IF a.err = "none" THEN "watch" ELSE "raised"

\* main(): SyncRoot(d) for every root, Synchronizer(*roots), watch() up to
\* observer.start(): the first sync() has run
StartWatch(order) ==
    /\ pc = "idle"
    /\ nsync < limit.sync
    /\ ~CtorRaises(order, root_path)
    /\ nsync' = nsync + 1
    /\ roots' = order
    /\ trust' = FALSE
    /\ fs0' = fs
    /\ hist' = Append(hist, Event("watch", 0, RootDir, "", order))
    /\ RunSync(CatchUp(MainLoop(InspectRoots(
                                    [World EXCEPT
                                       !.state = [r \in Roots |-> disk[r]],
                                       !.changes = [r \in Roots |-> <<>>],
                                       !.modified = [r \in Roots |-> FALSE]],
                                    order, FALSE),
                                order, NoSeen),
                       order, FALSE),
               order)
    /\ touched' = [r \in Roots |-> {}]
    /\ tick' = Sleeping
    /\ owed' = {}
    /\ UNCHANGED <<seen, cutoff, cu, snap, nmut, limit, root_path>>

\* time.sleep(5) is over: the loop over the handlers begins
Begin(h) == [phase |-> "begin", h |-> h, todo |-> {}, used |-> 0]

TickStart ==
    /\ pc = "watch"
    /\ tick.phase = "sleep"
    /\ tick' = Begin(1)
    /\ UNCHANGED <<fs, disk, state, changes, modified, now, pc, err, roots, trust,
                   seen, cutoff, cu, snap, fs0, hist, nmut, nsync, limit,
                   root_path, touched, owed>>

\* One turn of "for path in event_handler.updated_paths": the iterator of the
\* set, made at the first turn, raises RuntimeError when the set has not the
\* size it had then; otherwise it yields a path not yet yielded, which is
\* inspected, or ends the loop.
IterNext ==
    /\ pc = "watch"
    /\ tick.phase \in {"begin", "iter"}
    /\ LET r == roots[tick.h]
           todo == IF tick.phase = "begin" THEN touched[r] ELSE tick.todo
           used == IF tick.phase = "begin" THEN Cardinality(touched[r])
                   ELSE tick.used
       IN  IF Cardinality(touched[r]) # used
           THEN /\ pc' = "raised"
                /\ err' = "RuntimeError"
                /\ tick' = [tick EXCEPT !.phase = "failed"]
                /\ UNCHANGED <<fs, state, changes, modified, now, owed>>
           ELSE IF todo = {}
           THEN /\ tick' = [tick EXCEPT !.phase = "reset", !.todo = {}]
                /\ UNCHANGED <<fs, state, changes, modified, now, pc, err, owed>>
           ELSE \E path \in todo :
                    /\ Commit(inspect_path_for_changes(World, r, path, FALSE))
                    /\ tick' = [phase |-> "iter", h |-> tick.h,
                                todo |-> todo \ {path}, used |-> used]
                    /\ owed' = owed \ {<<r, path>>}
                    /\ pc' = pc
    /\ UNCHANGED <<disk, roots, trust, seen, cutoff, cu, snap, fs0, hist, nmut,
                   nsync, limit, root_path, touched>>

\* event_handler.updated_paths = set(), and on to the next handler or to
\* sync()
Reset ==
    /\ pc = "watch"
    /\ tick.phase = "reset"
    /\ touched' = [touched EXCEPT ![roots[tick.h]] = {}]
    /\ tick' = IF tick.h < Len(roots) THEN Begin(tick.h + 1)
               ELSE [tick EXCEPT !.phase = "sync"]
    /\ UNCHANGED <<fs, disk, state, changes, modified, now, pc, err, roots, trust,
                   seen, cutoff, cu, snap, fs0, hist, nmut, nsync, limit,
                   root_path, owed>>

\* self.sync(trust_previous_sync=True); the observer reports what it changes
TickSync ==
    /\ pc = "watch"
    /\ tick.phase = "sync"
    /\ RunSync(CatchUp(MainLoop(World, roots, NoSeen), roots, TRUE), roots)
    /\ Reported(fs')
    /\ tick' = Sleeping
    /\ UNCHANGED <<roots, trust, seen, cutoff, cu, snap, fs0, hist, nmut, nsync,
                   limit, root_path>>

\* a user changes a root while watch() runs
Watched(r, newfsr, t, ev) ==
    /\ pc = "watch"
    /\ nmut < limit.mut
    /\ nmut' = nmut + 1
    /\ now' = t
    /\ fs' = [fs EXCEPT ![r] = newfsr]
    /\ hist' = Append(hist, ev)
    /\ Reported([fs EXCEPT ![r] = newfsr])
    /\ UNCHANGED <<disk, state, changes, modified, pc, err, roots, trust, seen,
                   cutoff, cu, snap, fs0, nsync, limit, root_path, tick>>

WatchedWrite(r, p, c) ==
    LET w == makedirs(World, r, Parent(p), TRUE)
        t == w.now + 1
    IN  /\ w.err = "none"
        /\ fs[r][p].type \in {"none", "regular"}
        /\ Watched(r,
                   IF fs[r][p].type = "none"
                   THEN FsPut(w.fs[r], p, NewFile(c, FALSE, t), t)
                   ELSE [fs[r] EXCEPT ![p].data = c, ![p].mtime = t, ![p].ctime = t],
                   t, Event("write", r, p, c, <<>>))

WatchedDelete(r, p) ==
    /\ fs[r][p].type = "regular"
    /\ Watched(r, FsDel(fs[r], p, now + 1), now + 1,
               Event("delete", r, p, "", <<>>))

-----------------------------------------------------------------------------
(* Specifications *)

\* the roots stay where tempfile.mkdtemp put them: /t/0, /t/1, /t/2
TmpRoots == [r \in Roots |-> <<<<"t">>, <<<<"0">>, <<"1">>, <<"2">>>>[r]>>]

\* an empty directory in which SyncRoot.__init__ has made .syncstate/tmp
EmptyRoot == [p \in FsPaths |-> IF p \in {HiddenDir, TmpDir} THEN NewDir(0) ELSE NoEnt]

InitCommon ==
    /\ fs = [r \in Roots |-> EmptyRoot]
    /\ disk = [r \in Roots |-> <<>>]
    /\ state = [r \in Roots |-> <<>>]
    /\ changes = [r \in Roots |-> <<>>]
    /\ modified = [r \in Roots |-> FALSE]
    /\ now = 0
    /\ pc = "idle"
    /\ err = "none"
    /\ roots = <<>>
    /\ trust = FALSE
    /\ seen = NoSeen
    /\ cutoff = FALSE
    /\ cu = NoCu
    /\ snap = [r \in Roots |-> <<>>]
    /\ fs0 = [r \in Roots |-> EmptyRoot]
    /\ hist = <<>>
    /\ nmut = 0
    /\ nsync = 0
    /\ touched = [r \in Roots |-> {}]
    /\ tick = Sleeping
    /\ owed = {}

Init ==
    /\ InitCommon
    /\ root_path = TmpRoots
    /\ limit = [mut |-> MaxMut, sync |-> MaxSync]

(* Spec: two roots, each changed by its user between runs, synchronized in *)
(* either order.                                                           *)
PairRoots == {1, 2}
PairOrders == {<<1, 2>>, <<2, 1>>}

Next ==
    \/ \E order \in PairOrders : Construct(order, FALSE, FALSE)
    \/ MainStep
    \/ CatchUpStep
    \/ WriteStep
    \/ \E r \in PairRoots, p \in Paths, c \in Contents : UserWrite(r, p, c)
    \/ \E r \in PairRoots, p \in Paths : UserDelete(r, p)
    \/ \E r \in PairRoots, p \in Paths : UserMkdir(r, p)
    \/ \E r \in PairRoots, p \in Paths : UserRmdir(r, p)
    \/ \E r \in PairRoots, p \in Paths : UserChmod(r, p)

Spec == Init /\ [][Next]_vars

(* SpecBehind: three roots of which only root 1 is changed by its user;    *)
(* root 3 is left out of some runs.                                        *)
BehindOrders == {<<1, 2>>, <<2, 1>>, <<1, 2, 3>>, <<3, 2, 1>>}

NextBehind ==
    \/ \E order \in BehindOrders : Construct(order, FALSE, FALSE)
    \/ MainStep
    \/ CatchUpStep
    \/ WriteStep
    \/ \E p \in Paths, c \in Contents : UserWrite(1, p, c)
    \/ \E p \in Paths : UserDelete(1, p)
    \/ \E p \in Paths : UserMkdir(1, p)
    \/ \E p \in Paths : UserRmdir(1, p)

InitBehind ==
    /\ InitCommon
    /\ root_path = TmpRoots
    /\ limit = [mut |-> MaxMutBehind, sync |-> MaxSyncBehind]

SpecBehind == InitBehind /\ [][NextBehind]_vars

(* SpecCtor: a Synchronizer is constructed over roots at any absolute     *)
(* paths of up to MaxDepth names, a name being "a", "ab", ... of up to     *)
(* MaxNameLen characters.                                                  *)
Alphabet == <<"a", "b", "c", "d">>
Names == {SubSeq(Alphabet, 1, k) : k \in 1..MaxNameLen}

RECURSIVE PathsOfDepth(_)
PathsOfDepth(n) ==
    IF n = 0 THEN {<<>>}
    ELSE {Append(ap, nm) : ap \in PathsOfDepth(n - 1), nm \in Names}

AbsPaths == UNION {PathsOfDepth(n) : n \in 0..MaxDepth}

\* two or three different roots, in any order
CtorOrders ==
    {o \in [1..2 -> Roots] \cup [1..3 -> Roots] :
        Cardinality(RangeOf(o)) = Len(o)}

InitCtor ==
    /\ InitCommon
    /\ root_path \in [Roots -> AbsPaths]
    /\ limit = [mut |-> 0, sync |-> 1]

NextCtor == \E order \in CtorOrders : Construct(order, FALSE, FALSE)

SpecCtor == InitCtor /\ [][NextCtor]_vars

(* SpecWriter: two roots; a user writes files before a run, and a writer   *)
(* keeps replacing the content of files while the run is under way.        *)
NextWriter ==
    \/ \E order \in PairOrders : Construct(order, FALSE, FALSE)
    \/ MainStep
    \/ CatchUpStep
    \/ WriteStep
    \/ \E r \in PairRoots, p \in Paths, c \in Contents : UserWrite(r, p, c)
    \/ \E r \in PairRoots, p \in Paths, c \in Contents : WriterWrite(r, p, c)

InitWriter ==
    /\ InitCommon
    /\ root_path = TmpRoots
    /\ limit = [mut |-> MaxMutWriter, sync |-> MaxSyncWriter]

SpecWriter == InitWriter /\ [][NextWriter]_vars

(* SpecWriterLive: SpecWriter in which a run of sync() that has a next step *)
(* takes it: weak fairness of the steps of the run, none of the user or of  *)
(* the writer.  A turn of either loop changes seen or pc and always comes   *)
(* to an end, so ENABLED <<MainStep>>_vars is pc = "main" and               *)
(* ENABLED <<CatchUpStep>>_vars is pc = "catchup"; the weak fairness of the *)
(* two is written with them.                                                *)
FairRun ==
    /\ ([]<>(pc # "main") \/ []<><<MainStep>>_vars)
    /\ ([]<>(pc # "catchup") \/ []<><<CatchUpStep>>_vars)
    /\ WF_vars(WriteStep)

SpecWriterLive == InitWriter /\ [][NextWriter]_vars /\ FairRun

(* SpecFault: two roots changed by their users between runs; an atomic     *)
(* copy or an atomic write of a run can fail with an I/O error.            *)
NextFault ==
    \/ \E order \in PairOrders : Construct(order, FALSE, FALSE)
    \/ MainStep
    \/ CatchUpStep
    \/ WriteStep
    \/ \E f \in CopyFaults : FaultInTurn(f)
    \/ \E n \in 0..1, f \in WriteFaults : FaultInWrite(n, f)
    \/ \E r \in PairRoots, p \in Paths, c \in Contents : UserWrite(r, p, c)
    \/ \E r \in PairRoots, p \in Paths : UserDelete(r, p)

InitFault ==
    /\ InitCommon
    /\ root_path = TmpRoots
    /\ limit = [mut |-> MaxMutFault, sync |-> MaxSyncFault]

SpecFault == InitFault /\ [][NextFault]_vars

(* SpecLink: two roots in which the users make, retarget and remove        *)
(* symbolic links, and write and remove files, at the top-level path; the  *)
(* links point to a file or to a directory outside the roots.              *)
NextLink ==
    \/ \E order \in PairOrders : Construct(order, FALSE, FALSE)
    \/ MainStep
    \/ CatchUpStep
    \/ WriteStep
    \/ \E r \in PairRoots, t \in LinkTargets : UserSymlink(r, D, t)
    \/ \E r \in PairRoots : UserUnlink(r, D)
    \/ \E r \in PairRoots, c \in Contents : UserWrite(r, D, c)
    \/ \E r \in PairRoots : UserDelete(r, D)

InitLink ==
    /\ InitCommon
    /\ root_path = TmpRoots
    /\ limit = [mut |-> MaxMutLink, sync |-> MaxSyncLink]

SpecLink == InitLink /\ [][NextLink]_vars

(* SpecKill: two roots changed by their users between runs; a run can be   *)
(* terminated between any two of its filesystem or record-file operations. *)
NextKill ==
    \/ \E order \in PairOrders : Construct(order, FALSE, FALSE)
    \/ MainStep
    \/ CatchUpStep
    \/ WriteStep
    \/ \E k \in 0..MaxOps : KillInTurn(k)
    \/ \E n \in 0..1 : KillInWrite(n)
    \/ \E r \in PairRoots, p \in Paths, c \in Contents : UserWrite(r, p, c)
    \/ \E r \in PairRoots, p \in Paths : UserDelete(r, p)
    \/ \E r \in PairRoots, p \in Paths : UserMkdir(r, p)
    \/ \E r \in PairRoots, p \in Paths : UserRmdir(r, p)

InitKill ==
    /\ InitCommon
    /\ root_path = TmpRoots
    /\ limit = [mut |-> MaxMutKill, sync |-> MaxSyncKill]

SpecKill == InitKill /\ [][NextKill]_vars

(* SpecHash: two roots in which the users write files, also within the     *)
(* granularity of the timestamps; a run may be told to hash every file.    *)
NextHash ==
    \/ \E order \in PairOrders, force_hash \in BOOLEAN :
           Construct(order, force_hash, FALSE)
    \/ MainStep
    \/ CatchUpStep
    \/ WriteStep
    \/ \E r \in PairRoots, p \in Paths, c \in Contents : UserWrite(r, p, c)
    \/ \E r \in PairRoots, p \in Paths, c \in Contents : UserWriteSameTime(r, p, c)

InitHash ==
    /\ InitCommon
    /\ root_path = TmpRoots
    /\ limit = [mut |-> MaxMutHash, sync |-> MaxSyncHash]

SpecHash == InitHash /\ [][NextHash]_vars

(* SpecRace: two roots changed by their users between runs; during a run   *)
(* another process writes a path while the run updates or deletes it.      *)
NextRace ==
    \/ \E order \in PairOrders : Construct(order, FALSE, FALSE)
    \/ MainStep
    \/ CatchUpStep
    \/ WriteStep
    \/ \E when \in WriterMoments, r \in PairRoots, c \in WriterContents :
           WriterInTurn(when, r, c)
    \/ \E r \in PairRoots, p \in Paths, c \in Contents : UserWrite(r, p, c)
    \/ \E r \in PairRoots, p \in Paths : UserDelete(r, p)

InitRace ==
    /\ InitCommon
    /\ root_path = TmpRoots
    /\ limit = [mut |-> MaxMutRace, sync |-> MaxSyncRace]

SpecRace == InitRace /\ [][NextRace]_vars

(* SpecWatch: watch() over two roots whose users write and remove files    *)
(* before and while it runs.  The loop of watch() never ends: its thread    *)
(* takes its next step whenever it has one: weak fairness of each of its    *)
(* steps.  A step of the loop changes tick, and sync() always comes to an   *)
(* end or raises, so ENABLED <<TickSync>>_vars is SyncDue, and the weak      *)
(* fairness of TickSync is written with it.                                 *)
NextWatch ==
    \/ StartWatch(<<1, 2>>)
    \/ TickStart
    \/ IterNext
    \/ Reset
    \/ TickSync
    \/ \E r \in PairRoots, p \in Paths, c \in Contents : UserWrite(r, p, c)
    \/ \E r \in PairRoots, p \in Paths, c \in Contents : WatchedWrite(r, p, c)
    \/ \E r \in PairRoots, p \in Paths : WatchedDelete(r, p)

InitWatch ==
    /\ InitCommon
    /\ root_path = TmpRoots
    /\ limit = [mut |-> MaxMutWatch, sync |-> MaxSyncWatch]

SyncDue == pc = "watch" /\ tick.phase = "sync"

FairTick ==
    /\ WF_vars(TickStart)
    /\ WF_vars(IterNext)
    /\ WF_vars(Reset)
    /\ ([]<>(~SyncDue) \/ []<><<TickSync>>_vars)

SpecWatch == InitWatch /\ [][NextWatch]_vars /\ FairTick

(* SpecDeep: two roots in which the users write and remove files up to     *)
(* three directories deep.                                                 *)
NextDeep ==
    \/ \E order \in PairOrders : Construct(order, FALSE, FALSE)
    \/ MainStep
    \/ CatchUpStep
    \/ WriteStep
    \/ \E r \in PairRoots, p \in AllPaths, c \in Contents : UserWrite(r, p, c)
    \/ \E r \in PairRoots, p \in AllPaths : UserDelete(r, p)

InitDeep ==
    /\ InitCommon
    /\ root_path = TmpRoots
    /\ limit = [mut |-> MaxMutDeep, sync |-> MaxSyncDeep]

SpecDeep == InitDeep /\ [][NextDeep]_vars

-----------------------------------------------------------------------------
(* Claims *)

Participants == RangeOf(roots)

\* the same kind, the same content and the same executable bit
SameEntry(e1, e2) == <<e1.type, e1.data, e1.x>> = <<e2.type, e2.data, e2.x>>

Converged ==
    \A r1, r2 \in Participants, p \in Paths : SameEntry(fs[r1][p], fs[r2][p])

\* C1 (convergence): whatever the users did to the roots, sync() completes
\* (it does not raise) and, once it has returned, every root of the run holds
\* the same paths with the same kind, content and executable bit.
C1_Convergence ==
    /\ pc # "raised"
    /\ pc = "done" => Converged

\* what root r observed for p when the run was constructed
SnapAction(r, p) == ChangeAction(snap[r], p)
SnapStat(r, p) == ChangeStat(snap[r], p)

Gone(r, p) ==
    /\ fs[r][p].type = "none"
    /\ ~DictHas(state[r], p)
    /\ ~DictHas(disk[r], p)

DeleteUpdateConflict(A, B, p) ==
    /\ A # B
    /\ SnapAction(A, p) = "deleted"
    /\ SnapAction(B, p) = "updated"
    /\ SnapStat(B, p).type = "regular"

\* C2 (delete wins): when the run found path p deleted on root A and its
\* content updated on root B, the run does not raise and, once it has
\* returned, p is absent from the filesystem, the records and the persisted
\* records of both roots, whichever change is the later one and whichever
\* root comes first.
C2_DeleteWins ==
    \A A, B \in Participants, p \in Paths :
        DeleteUpdateConflict(A, B, p) =>
            /\ pc # "raised"
            /\ pc = "done" => Gone(A, p) /\ Gone(B, p)

\* the update on the second root is the later change
C2_Witness ==
    /\ pc = "done"
    /\ roots = <<1, 2>>
    /\ DeleteUpdateConflict(1, 2, D)
    /\ Len(hist) >= 3
    /\ hist[Len(hist) - 1].op = "write" /\ hist[Len(hist) - 1].r = 2
    /\ hist[Len(hist) - 2].op = "delete" /\ hist[Len(hist) - 2].r = 1

\* that step calls _get_root_with_golden_copy
GoldenInvoked ==
    /\ Resolving # NoPath
    /\ ~was_deleted(World, roots, Resolving)
    /\ was_updated_or_created(World, roots, Resolving)

PendingStat(r, p) == ChangeStat(changes[r], p)

\* what golden-copy selection reads for root r: the pending observation or,
\* without one, the stored record
HeldStat(r, p) ==
    IF PendingStat(r, p) # None THEN PendingStat(r, p)
    ELSE path_get_stat(state[r], p)

GoldenIsDir ==
    LET g == _get_root_with_golden_copy(World, roots, Resolving)
    IN  g # NoRoot /\ HeldStat(g, Resolving).type = "dir"

NoDirBecomesFile ==
    \A r \in Participants :
        fs[r][Resolving].type = "dir" => fs'[r][Resolving].type # "regular"

\* C3 as stated (a directory never loses to a file): whenever a step selects
\* a golden copy for a path of which some root holds a directory, as a pending
\* observation or only as a stored record, the golden root holds a directory,
\* and the step replaces no directory at that path by a file.
C3_DirNeverLoses ==
    [][(GoldenInvoked /\ \E r \in Participants : HeldStat(r, Resolving).type = "dir")
          => GoldenIsDir /\ NoDirBecomesFile]_vars

\* C3 amended (a pending directory never loses to a file): whenever a step
\* selects a golden copy for a path of which some root holds a directory as a
\* pending observation, the golden root holds a directory, and the step
\* replaces no directory at that path by a file.
C3_PendingDirNeverLoses ==
    [][(GoldenInvoked /\ \E r \in Participants : PendingStat(r, Resolving).type = "dir")
          => GoldenIsDir /\ NoDirBecomesFile]_vars

\* a run that found a directory on one root and a later written file on the
\* other has returned, and both hold the directory
C3_Witness ==
    /\ pc = "done"
    /\ \E r1, r2 \in Participants :
          /\ SnapStat(r1, D).type = "dir"
          /\ SnapStat(r2, D).type = "regular"
          /\ updated_time(SnapStat(r2, D)) > updated_time(SnapStat(r1, D))
          /\ fs[r1][D].type = "dir" /\ fs[r2][D].type = "dir"

Children(p) == {q \in Paths : q # p /\ Parent(q) = p}

\* C4 (directory beats file on simultaneous creation): when the run found p
\* created as a regular file on root A and as a directory on root B, it does
\* not raise and, once it has returned, p is a directory on both roots and
\* every child the directory had on B is on both roots with B's content.
C4_DirBeatsFile ==
    \A A, B \in Participants, p \in Paths :
        (SnapAction(A, p) = "created" /\ SnapStat(A, p).type = "regular"
           /\ SnapAction(B, p) = "created" /\ SnapStat(B, p).type = "dir") =>
            /\ pc # "raised"
            /\ pc = "done" =>
                  /\ fs[A][p].type = "dir" /\ fs[B][p].type = "dir"
                  /\ \A q \in Children(p) :
                        fs0[B][q].type # "none" =>
                            /\ SameEntry(fs[A][q], fs0[B][q])
                            /\ SameEntry(fs[B][q], fs0[B][q])

\* the directory came with a file in it, and the file of the other root was
\* written last
C4_Witness ==
    /\ pc = "done"
    /\ roots = <<1, 2>>
    /\ SnapAction(1, D) = "created" /\ SnapStat(1, D).type = "regular"
    /\ SnapAction(2, D) = "created" /\ SnapStat(2, D).type = "dir"
    /\ updated_time(SnapStat(1, D)) > updated_time(SnapStat(2, D))
    /\ fs0[2][DG].type = "regular"
    /\ fs[1][DG].type = "regular"

\* the events of the history, the last one first
Last(k) == hist[Len(hist) + 1 - k]

\* the run in progress was constructed right after the event before it
IsSync(e) == e.op = "sync"
IsWrite(e, r, p) == e.op = "write" /\ e.r = r /\ e.p = p

\* C5 (golden copy by time): when root A wrote regular file p, root B wrote
\* p after it, and the run was constructed next, then the run does not raise
\* and, once it has returned, both roots hold the content B wrote.
C5_LaterWriteWins ==
    \A A, B \in Participants, p \in Paths :
        (/\ Len(hist) >= 3
         /\ A # B
         /\ IsSync(Last(1))
         /\ IsWrite(Last(2), B, p)
         /\ IsWrite(Last(3), A, p)) =>
            /\ pc # "raised"
            /\ pc = "done" =>
                  \A r \in {A, B} :
                      fs[r][p].type = "regular" /\ fs[r][p].data = Last(2).c

\* C6 (executable bit): when a regular file p that a completed run left
\* equal on the roots had only its executable bit changed on root A, and the
\* same roots are synchronized next, then once that run has returned every
\* root has the bit as A has it, with the content and the stored digest of
\* p unchanged.
C6_ExecBitPropagates ==
    \A A \in Participants, p \in Paths :
        (/\ Len(hist) >= 3
         /\ pc = "done"
         /\ IsSync(Last(1))
         /\ Last(2).op = "chmod" /\ Last(2).r = A /\ Last(2).p = p
         /\ Last(2).after = "done"
         /\ IsSync(Last(3)) /\ RangeOf(Last(3).order) = Participants) =>
            \A r \in Participants :
                /\ fs[r][p].x = fs0[A][p].x
                /\ fs[r][p].data = fs0[r][p].data
                /\ path_get_hash(state[r], p) = get_file_hash(fs0[r][p])

\* what a Synchronizer constructed now over the same roots would find
Reinspected ==
    InspectRoots([World EXCEPT !.state = [r \in Roots |-> disk[r]],
                               !.changes = [r \in Roots |-> <<>>],
                               !.modified = [r \in Roots |-> FALSE]],
                 roots, FALSE)

\* C9 (idempotence): once a run has returned normally, inspecting every root
\* again, as the construction of a new Synchronizer does, yields no pending
\* change in any root.
C9_Idempotent ==
    pc = "done" => \A r \in Participants : Reinspected.changes[r] = <<>>

\* the run in progress is over A, B and C, without trust in the previous run,
\* and was constructed right after a completed run over A and B only
CaughtUp(A, B, C) ==
    /\ Len(hist) >= 2
    /\ IsSync(Last(1)) /\ Last(1).after = "done"
    /\ IsSync(Last(2)) /\ RangeOf(Last(2).order) = {A, B}
    /\ A # B /\ Participants = {A, B, C} /\ C \notin {A, B}
    /\ ~trust

\* C7 (catch-up of an excluded root): when roots A and B were synchronized
\* without root C, and A, B and C are synchronized next with no change in
\* between, then the run does not raise and, once it has returned, C holds
\* every file and directory A held when the run began, parent directories
\* included, with the same kind and content.
C7_CatchUp ==
    \A A, B, C \in Roots :
        CaughtUp(A, B, C) =>
            /\ pc # "raised"
            /\ pc = "done" =>
                  \A p \in Paths :
                      fs0[A][p].type # "none" => SameEntry(fs[C][p], fs0[A][p])

\* events e1, e2 change p on root A from one kind to the other
Converts(e1, e2, A, p) ==
    /\ e1.r = A /\ e2.r = A /\ e1.p = p /\ e2.p = p
    /\ \/ e1.op = "rmdir" /\ e2.op = "write"
       \/ e1.op = "delete" /\ e2.op = "mkdir"

\* C8 (type conversions propagate): when the last change of the users was a
\* conversion of p on root A from directory to file or from file to
\* directory, a run over A that follows does not raise and, once it has
\* returned, p has the converted kind on every root of the run, also on a
\* root that was left out of the runs in between.
C8_ConversionPropagates ==
    \A A \in Participants, p \in Paths, i \in 1..Len(hist) :
        (/\ i + 2 <= Len(hist)
         /\ Converts(hist[i], hist[i + 1], A, p)
         /\ \A j \in (i + 2)..Len(hist) : IsSync(hist[j])) =>
            /\ pc # "raised"
            /\ pc = "done" =>
                  \A r \in Participants :
                      fs[r][p].type =
                          IF hist[i + 1].op = "write" THEN "regular" ELSE "dir"

\* whole names of ap1 are the first names of ap2: the same path or an ancestor
IsAncestorOrSame(ap1, ap2) ==
    Len(ap1) <= Len(ap2) /\ SubSeq(ap2, 1, Len(ap1)) = ap1

Nested(order) ==
    \E i, j \in 1..Len(order) :
        i # j /\ IsAncestorOrSame(root_path[order[i]], root_path[order[j]])

\* C10 (nested roots): the construction of a Synchronizer raises ValueError
\* exactly when two of its roots have the same absolute path or the path of
\* one is made of the first names of the path of another; otherwise it goes
\* on to inspect the roots.
C10_CtorRaisesIffNested ==
    pc \in {"main", "raised"} =>
        /\ (pc = "raised" /\ err = "ValueError") <=> Nested(roots)
        /\ pc = "main" <=> ~Nested(roots)

\* roots /a/a and /a/ab, the name of one a prefix of the name of the other,
\* next to a root elsewhere, are accepted
C10_Witness ==
    /\ pc = "main"
    /\ Len(roots) = 3
    /\ root_path[roots[1]] = <<<<"a">>, <<"a">>>>
    /\ root_path[roots[2]] = <<<<"a">>, <<"a", "b">>>>

-----------------------------------------------------------------------------
\* C11 (what a normal return leaves): whenever sync() has returned without
\* raising, every root of the run has no pending change, its state is not
\* flagged modified, and its record file holds exactly its in-memory records.
C11_ReturnLeavesStateWritten ==
    pc = "done" =>
        \A r \in Participants :
            /\ changes[r] = <<>>
            /\ ~modified[r]
            /\ disk[r] = state[r]

\* a run that had changes to resolve has returned and has written records
C11_Witness ==
    /\ pc = "done"
    /\ \E r \in Participants : snap[r] # <<>> /\ disk[r] # <<>>
    /\ \E r \in Participants : snap[r] = <<>> /\ disk[r] # <<>>

-----------------------------------------------------------------------------
\* C12 (oscillating path): once some path has been selected more than ten
\* times within one sync() call, the call does not raise: it returns
\* normally and the pending change of that path is still held by its root.
C12_CutOffReturnsNormally ==
    cutoff =>
        /\ pc # "raised"
        /\ pc = "done" =>
               \E r \in Participants, p \in Paths :
                   seen[p] > SeenLimit /\ DictHas(changes[r], p)

-----------------------------------------------------------------------------
\* what the terminated run had found pending when it began
Deleting(p) == \E r \in Participants : SnapAction(r, p) = "deleted"
DeletingAbove(p) == Deleting(p) \/ (Len(p) > 1 /\ Deleting(Parent(p)))
Updating(p) ==
    /\ ~DeletingAbove(p)
    /\ \E r \in Participants : SnapAction(r, p) \in {"created", "updated"}

\* m is the world a run over the roots of the terminated run ends in
RecoveredWell(m) ==
    /\ m.err = "none"
    /\ \A r1, r2 \in Participants, p \in Paths :
           SameEntry(m.fs[r1][p], m.fs[r2][p])
    /\ \A p \in Paths :
           Deleting(p) => \A r \in Participants : m.fs[r][p].type = "none"
    /\ \A p \in Paths :
           Updating(p) =>
               \A r \in Participants :
                   \E g \in Participants :
                       /\ SnapAction(g, p) \in {"created", "updated"}
                       /\ SameEntry(m.fs[r][p], fs0[g][p])

\* C13 (recovery after termination): when a sync() call has been terminated
\* between two of its filesystem or record-file operations, fresh SyncRoots
\* and a Synchronizer over the same roots, with no change made by anyone in
\* between, run sync() to a normal return, after which the roots hold the
\* same entries, every path the terminated run was deleting is absent from
\* every root, and every path it was creating or updating is in every root
\* with the content a changed root held.
C13_KillRecovery ==
    pc = "killed" => RecoveredWell(sync_dirs(fs, disk, now, roots))

-----------------------------------------------------------------------------
\* two runs ended with the same entries (kind, content, executable bit) at
\* every path of every root of R
SameOutcome(m1, m2, R) ==
    \A r \in R, p \in Paths : SameEntry(m1.fs[r][p], m2.fs[r][p])

\* C14 (root order): from the same filesystems and record files, sync()
\* leaves the same filesystem contents whatever the order in which the
\* roots are given to the Synchronizer.
C14_OrderIndependent ==
    Quiescent =>
        \A o1, o2 \in BehindOrders :
            RangeOf(o1) = RangeOf(o2) =>
                SameOutcome(sync_dirs(fs, disk, now, o1),
                            sync_dirs(fs, disk, now, o2), RangeOf(o1))

-----------------------------------------------------------------------------
\* root r has neither a stored record nor a filesystem entry for path p
NeverHad(r, p) == ~DictHas(state[r], p) /\ fs[r][p].type = "none"

\* C18 (deleting what is already absent): when a run resolves a pending
\* deletion of a path while some root of the run has neither a stored record
\* nor a filesystem entry for it, perform_delete on that root is a no-op:
\* the step raises nothing and leaves that root's filesystem as it was.
C18_DeleteOfAbsentIsNoOp ==
    [][\A r \in Participants :
          (/\ Resolving # NoPath
           /\ was_deleted(World, roots, Resolving)
           /\ NeverHad(r, Resolving))
          => (err' = "none" /\ fs'[r] = fs[r])]_vars

-----------------------------------------------------------------------------
PendingDeleted(p) ==
    \E r \in Participants : ChangeAction(changes[r], p) = "deleted"

\* path is a pending deletion, none is longer, and it is not the directory
\* of another pending deletion
DeletionsFirst(path) ==
    /\ PendingDeleted(path)
    /\ \A q \in Paths : PendingDeleted(q) => StrLen(path) >= StrLen(q)
    /\ \A q \in Paths : PendingDeleted(q) => path # Parent(q)

\* C20 (deletions first, children before parents): whenever some root of the
\* run has a pending deletion, _get_changed_path returns a path with a
\* pending deletion, a longest one, so that the deletion of a path inside a
\* directory is selected before the deletion of the directory.
C20_DeletionsFirst ==
    (pc = "main" /\ \E p \in Paths : PendingDeleted(p))
        => DeletionsFirst(_get_changed_path(World, roots))

\* a directory and the file in it are both pending deletions, and the file
\* is selected
C20_Witness ==
    /\ pc = "main"
    /\ PendingDeleted(D) /\ PendingDeleted(DG)
    /\ _get_changed_path(World, roots) = DG

-----------------------------------------------------------------------------
\* root r holds a stored record, a persisted record or a pending change of p
Tracked(r, p) ==
    DictHas(state[r], p) \/ DictHas(disk[r], p) \/ DictHas(changes[r], p)

\* C19 (own root and hidden directory are never tracked): in every reachable
\* state no root holds a stored record, a persisted record or a pending
\* change for its own root path or for a path inside its .syncstate
\* directory, so that no such path is ever handed to _sync_path.
C19_HiddenNeverTracked ==
    /\ \A r \in Roots, p \in HiddenPaths \cup {RootDir} : ~Tracked(r, p)
    /\ Resolving \notin HiddenPaths \cup {RootDir}

\* a run has walked a root whose listing holds .syncstate and .syncstate/tmp,
\* has recorded other paths of it and has created a top-level path in it
C19_Witness ==
    /\ pc = "done"
    /\ \E r \in Participants :
           /\ \E i \in 1..Len(list_paths(fs[r])) : list_paths(fs[r])[i] = TmpDir
           /\ DictHas(state[r], DG)
           /\ snap[r] = <<>>

-----------------------------------------------------------------------------
\* root A entered the run with a new or retargeted link at p, the only
\* pending change of p
LinkChanged(A, p) ==
    /\ A \in Participants
    /\ SnapAction(A, p) \in {"created", "updated"}
    /\ fs0[A][p].type = "link"
    /\ \A B \in Participants \ {A} : SnapAction(B, p) = "none"

\* C15 (links are carried over as links): a run entered with a symbolic link
\* created or retargeted on one root returns normally, and every other root
\* then holds a symbolic link with the same target string at that path,
\* whether the target is a file or a directory and whatever the other root
\* held there before.
C15_LinkPropagates ==
    \A A \in Roots, p \in Paths :
        (pc \in {"done", "raised"} /\ LinkChanged(A, p)) =>
            /\ pc = "done"
            /\ \A B \in Participants :
                   fs[B][p].type = "link" /\ fs[B][p].data = fs0[A][p].data

\* root A entered the run with p deleted, p being a link to a directory that
\* the other roots hold unchanged
LinkToDirDeleted(A, p) ==
    /\ A \in Participants
    /\ SnapAction(A, p) = "deleted"
    /\ fs0[A][p].type = "none"
    /\ \A B \in Participants \ {A} :
           /\ SnapAction(B, p) = "none"
           /\ fs0[B][p].type = "link"
           /\ TargetKind(fs0[B][p].data) = "dir"

\* C16 (deleting a link to a directory): a run entered with a synchronized
\* symbolic link to a directory deleted on one root returns normally, and
\* the link is then absent from every root.
C16_LinkToDirDeleted ==
    \A A \in Roots, p \in Paths :
        (pc \in {"done", "raised"} /\ LinkToDirDeleted(A, p)) =>
            /\ pc = "done"
            /\ \A B \in Participants : fs[B][p].type = "none"

-----------------------------------------------------------------------------
\* C17 (scratch files): after an atomic copy or an atomic write, whether it
\* succeeded or the copy, the hashing, the write or the rename raised an I/O
\* error, no scratch file is left under .syncstate/tmp, and no path of a
\* root holds part of a content: a destination is as it was or replaced
\* completely.
C17_NoScratchLeft ==
    \A r \in Roots :
        /\ fs[r][ScratchFile].type = "none"
        /\ \A p \in Paths : fs[r][p].data # Partial

-----------------------------------------------------------------------------
PendingChanged(p) ==
    \E r \in Participants : ChangeAction(changes[r], p) \in {"updated", "created"}

\* C21 (longest created or updated path first): whenever no root of the run
\* has a pending deletion and some root has a pending created or updated
\* change, _get_changed_path returns a path that is at least as long as every
\* path with a pending created or updated change, so that a deeper path is
\* resolved before any of its ancestors.
C21_LongestChangedFirst ==
    (pc = "main" /\ ~(\E p \in Paths : PendingDeleted(p))
       /\ \E p \in Paths : PendingChanged(p))
        => \A q \in Paths :
               PendingChanged(q) =>
                   StrLen(_get_changed_path(World, roots)) >= StrLen(q)

-----------------------------------------------------------------------------
\* C22 (a directory is empty when sync() removes it): with no writer at work
\* during the run, every os.rmdir of perform_delete and of perform_update
\* finds the directory without children on that root: no run ends with the
\* OSError of a directory that is not empty.
C22_RmdirFindsDirEmpty ==
    ~(pc = "raised" /\ err = "OSError")

-----------------------------------------------------------------------------
\* the directories leading to p, the top-level one included
Ancestors(p) == {SubSeq(p, 1, k) : k \in 1..(Len(p) - 1)}

\* the next step of the run calls perform_update(p) on root r, which has no
\* record of p, with the copy of another root
Materializing(r, p) ==
    /\ Resolving = p
    /\ ~was_deleted(World, roots, p)
    /\ was_updated_or_created(World, roots, p)
    /\ _get_root_with_golden_copy(World, roots, p) \notin {NoRoot, r}
    /\ ~DictHas(state[r], p)

\* C23 (ancestors that are files give way, at any depth): when perform_update
\* materializes a path on a root where one of the directories leading to it
\* is a regular file, the step raises nothing and afterwards every directory
\* leading to the path is a directory on that root, and each one that was a
\* file has a directory record and no pending change; this for paths one,
\* two and three directories deep.
C23_AncestorsGiveWay ==
    [][\A r \in Participants, p \in AllPaths :
          (Materializing(r, p) /\ \E q \in Ancestors(p) : fs[r][q].type = "regular")
          => /\ err' = "none"
             /\ \A q \in Ancestors(p) :
                    /\ fs'[r][q].type = "dir"
                    /\ fs[r][q].type = "regular" =>
                           /\ path_get_stat(state'[r], q).type = "dir"
                           /\ ~DictHas(changes'[r], q)]_vars

-----------------------------------------------------------------------------
\* every root of the run has just been inspected: the Synchronizer is
\* constructed and no path has been resolved yet
JustInspected == pc = "main" /\ seen = NoSeen

\* the record of p in root r holds the fingerprint and the digest of the
\* live entry
RecordIsLive(r, p) ==
    /\ stats_equal(path_get_stat(state[r], p), StatOf(fs[r][p]))
    /\ path_get_hash(state[r], p) = get_file_hash(fs[r][p])

\* C24 (the record follows the live entry): right after a root has been
\* inspected, the record of every regular file and symbolic link in it holds
\* the live modification time, size and mode and the live digest, whether or
\* not the inspection emitted a change, so that another inspection of the
\* unchanged path finds the fingerprints equal and does not hash again.
C24_RecordFollowsLive ==
    JustInspected =>
        \A r \in Participants, p \in Paths :
            fs[r][p].type \in {"regular", "link"} => RecordIsLive(r, p)

-----------------------------------------------------------------------------
\* the run under way was constructed with force_hash = True
Forced == hist # <<>> /\ Last(1).op = "sync" /\ Last(1).c = "force_hash"

\* the live content of p in root r has the digest root r had stored
SameDigest(r, p) == get_file_hash(fs[r][p]) = path_get_hash(disk[r], p)

\* the live fingerprint of p in root r is the one root r had stored
SameFingerprint(r, p) == stats_equal(StatOf(fs[r][p]), path_get_stat(disk[r], p))

-----------------------------------------------------------------------------
\* C26 (a writer during perform_update or perform_delete is caught): when
\* another process writes path P in a root while perform_update or
\* perform_delete of P is under way in that root, before or after the rename
\* or removal, then as the turn ends P holds the writer's content in that
\* root and the root has a pending change for P with the fingerprint of
\* that content.
C26_WriterCaught ==
    [][(Len(hist') = Len(hist) + 1 /\ IsIntrusion(hist'[Len(hist')])) =>
          LET e == hist'[Len(hist')]
          IN  /\ fs'[e.r][e.p].type = "regular"
              /\ fs'[e.r][e.p].data = e.c
              /\ DictHas(changes'[e.r], e.p)
              /\ ChangeStat(changes'[e.r], e.p) = StatOf(fs'[e.r][e.p])]_vars

-----------------------------------------------------------------------------
\* root r has a record of p with the digest and the mode of the record of
\* root g
StoredMatch(r, g, p) ==
    /\ path_get_hash(state[r], p) = path_get_hash(state[g], p)
    /\ path_get_stat(state[r], p) # None
    /\ path_get_stat(state[g], p) # None
    /\ path_get_stat(state[r], p).type = path_get_stat(state[g], p).type
    /\ path_get_stat(state[r], p).x = path_get_stat(state[g], p).x

\* C27 (what resolving a changed path leaves alone): a step that resolves a
\* path as changed does not modify the filesystem of the golden root, and
\* does not modify the filesystem of a root whose stored digest and mode of
\* the path are those of the golden root: perform_update runs only on roots
\* whose record differs or is missing.
C27_GoldenFrame ==
    [][GoldenInvoked =>
          LET g == _get_root_with_golden_copy(World, roots, Resolving)
          IN  g # NoRoot =>
                  /\ fs'[g] = fs[g]
                  /\ \A r \in Participants \ {g} :
                         StoredMatch(r, g, Resolving) => fs'[r] = fs[r]]_vars

\* a run over three roots has returned in which the catch-up pass resolved a
\* file that two roots held in step and the third root lacked: the third
\* root has it now, and the two are as they were
C27_Witness ==
    /\ pc = "done"
    /\ Len(roots) = 3
    /\ \A r \in Participants : snap[r] = <<>>
    /\ fs0[roots[3]][D].type = "none"
    /\ fs[roots[3]][D].type = "regular"
    /\ fs[roots[1]] = fs0[roots[1]]
    /\ fs[roots[2]] = fs0[roots[2]]

-----------------------------------------------------------------------------
\* C28 (no notification is lost in watch mode): the loop of watch() never
\* fails because a handler's set changed while it was iterated over, and
\* every path reported to the handler of a root, at whatever moment of the
\* tick, is eventually passed to inspect_path_for_changes of that root.
C28_EveryReportInspected ==
    /\ [](err # "RuntimeError")
    /\ \A r \in PairRoots, p \in Paths : (<<r, p>> \in owed) ~> (<<r, p>> \notin owed)

\* C29: whenever a step of the main loop or of the catch-up pass calls
\* _get_root_with_golden_copy(path), at least one root holds a pending
\* fingerprint or a stored fingerprint of the path: the list of candidates
\* is not empty, and no run ends with the IndexError of root_stats[0].
C29_GoldenHasCandidate ==
    /\ GoldenInvoked => root_stats(World, roots, Resolving) # <<>>
    /\ err # "IndexError"

\* a step of the catch-up pass is about to choose the golden copy of a path
\* no root has a pending change for, by the stored fingerprints alone
C29_Witness ==
    /\ pc = "catchup"
    /\ GoldenInvoked
    /\ \A r \in RangeOf(roots) : PendingStat(r, Resolving) = None
    /\ root_stats(World, roots, Resolving) # <<>>

\* a turn of the main loop calls _sync_path(p) and it changes something
MainResolved(p) ==
    /\ pc = "main"
    /\ seen'[p] = seen[p] + 1
    /\ <<fs, state, changes, modified>>' # <<fs, state, changes, modified>>

\* a turn of the catch-up pass calls _sync_path(p)
CatchUpResolved(p) == pc = "catchup" /\ seen'[p] # seen[p]

\* C30: every sync() comes to an end, also when a writer keeps replacing
\* the content of files: a turn of the main loop that resolves a path is one
\* of the first ten selections of that path, no path is selected more than
\* eleven times, a turn of the catch-up pass resolves a path that was not
\* selected before, in the main loop or in the catch-up pass, and a run
\* that is in its main loop ends (with a return or an exception).
C30_SyncTerminates ==
    /\ [][\A p \in AllPaths : MainResolved(p) => seen'[p] <= SeenLimit]_vars
    /\ [][\A p \in AllPaths :
              CatchUpResolved(p) => seen[p] = 0 /\ seen'[p] = 1]_vars
    /\ [](\A p \in AllPaths : seen[p] <= SeenLimit + 1)
    /\ (pc = "main" ~> NotRunning)

\* the writer has made the main loop stop at the eleventh selection of a
\* path, and the catch-up pass is about to resolve a path that was never
\* selected
C30_Witness ==
    /\ cutoff
    /\ \E p \in Paths : seen[p] = SeenLimit + 1
    /\ pc = "catchup"
    /\ seen[Resolving] = 0

\* the records of directories in a SyncState
DirRecords(st) == {i \in 1..Len(st) : st[i].stat.type = "dir"}

\* C31: in every root a stored record whose fingerprint is a directory has
\* no content digest, in the SyncState in memory and in the record file.
C31_DirRecordHasNoDigest ==
    \A r \in Roots :
        /\ \A i \in DirRecords(state[r]) : state[r][i].hash = NoHash
        /\ \A i \in DirRecords(disk[r]) : disk[r][i].hash = NoHash

\* a root whose record file holds a path as a regular file with its digest
\* has, in a run, the record of the path as a directory without digest
C31_Witness ==
    \E r \in PairRoots, p \in Paths :
        /\ ~NotRunning
        /\ path_get_stat(disk[r], p).type = "regular"
        /\ path_get_hash(disk[r], p) # NoHash
        /\ path_get_stat(state[r], p).type = "dir"
        /\ path_get_hash(state[r], p) = NoHash
        /\ fs0[r][p].type = "regular"

\* some root of the run has a stored record of p
HeldSomewhere(p) == \E r \in Participants : DictHas(state[r], p)

\* the step resolves p, for which no root has a pending deletion and some
\* root has a stored record
ResolvedUndeleted(p) ==
    /\ Resolving = p
    /\ seen'[p] = seen[p] + 1
    /\ ~PendingDeleted(p)
    /\ HeldSomewhere(p)

\* every root of the run that lacked p has it after the step
Recreated(p) ==
    \A r \in Participants : fs[r][p].type = "none" => fs'[r][p].type # "none"

\* C32 (absence alone is never propagated as a deletion): a step of the main
\* loop or of the catch-up pass that resolves a path for which no root has a
\* pending deletion and some root has a stored record leaves the path
\* present on every root of the run that lacked it.
C32_AbsenceIsRecreated ==
    [][\A p \in AllPaths : ResolvedUndeleted(p) => Recreated(p)]_vars

\* the pending change c of a root and the SyncState st of that root agree
RecordAgrees(st, c) ==
    IF c.action = "deleted" THEN ~DictHas(st, c.path)
    ELSE DictHas(st, c.path) /\ path_get_stat(st, c.path) = c.stat

PendingAgree(w) ==
    \A r \in Roots : \A i \in 1..Len(w.changes[r]) :
        RecordAgrees(w.state[r], w.changes[r][i])

\* the operation that led to w has completed: it raised nothing
Completed(w) == w.err = "none"

\* C33: between two completed operations of a SyncRoot a path with a pending
\* deletion has no stored record in that root, and a path with a pending
\* creation or update has a stored record whose fingerprint is the one the
\* pending change observed: it is so in every state of a live process that
\* has raised nothing, and each operation of a root that completes from
\* such a state keeps it so.
C33_PendingAgreesWithRecord ==
    (err = "none" /\ pc # "killed") =>
        /\ PendingAgree(World)
        /\ \A r \in PairRoots, p \in Paths :
               /\ \A force_hash \in BOOLEAN :
                      LET w == inspect_path_for_changes(World, r, p, force_hash)
                      IN  Completed(w) => PendingAgree(w)
               /\ LET w == remove_change(World, r, p)
                  IN  Completed(w) => PendingAgree(w)
               /\ LET w == perform_delete(World, r, p)
                  IN  Completed(w) => PendingAgree(w)
               /\ \A src \in PairRoots \ {r} :
                      LET w == perform_update(World, r, p, src)
                      IN  Completed(w) => PendingAgree(w)

\* the roots of a run have been inspected: one has a pending deletion and no
\* record of the path, one a pending creation or update and the record of
\* what it observed
C33_Witness ==
    /\ pc = "main"
    /\ err = "none"
    /\ \E r \in PairRoots, p \in Paths :
           /\ ChangeAction(changes[r], p) = "deleted"
           /\ ~DictHas(state[r], p)
    /\ \E r \in PairRoots, p \in Paths :
           /\ ChangeAction(changes[r], p) \in {"created", "updated"}
           /\ path_get_stat(state[r], p) = ChangeStat(changes[r], p)

\* no root of the run has a pending change left
NothingPending == \A r \in Roots : changes[r] = <<>>

\* the while loop of sync() ends without an exception
MainLoopEnds == pc = "main" /\ pc' \in {"catchup", "write"}

\* C34: in a run that no writer interferes with, no path is selected more
\* than ten times, the cut-off is never triggered, and the main loop ends
\* only when no pending change remains.
C34_NoCutOffWithoutWriter ==
    /\ [](~cutoff /\ \A p \in AllPaths : seen[p] <= SeenLimit)
    /\ [][MainLoopEnds => NothingPending']_vars

\* the main loop is about to end: a path was selected a second time, for the
\* change its own resolution brought up, and no pending change remains
C34_Witness ==
    /\ pc = "main"
    /\ ~cutoff
    /\ \E p \in Paths : seen[p] = 2
    /\ NothingPending

====
